---- MODULE Spec2Model ----
(***************************************************************************)
(* The role-request controller of EdgeNet                                  *)
(* (pkg/controller/registration/v1alpha/rolerequest/controller.go):        *)
(* the work-queue driven reconcile loop, the approval procedure            *)
(* (applyProcedure) with its calls on the API server, and the expiry       *)
(* scheduler (RunExpiryController).                                        *)
(*                                                                         *)
(* The API server is modelled by what its calls do: every object carries a *)
(* resourceVersion, Update and UpdateStatus are refused when the version   *)
(* sent is not the stored one, Update of a RoleRequest leaves the status   *)
(* subresource alone and returns the stored object, UpdateStatus writes    *)
(* the status alone, Create is refused when the name is taken.  The        *)
(* informer's lister (cache) follows the store by delivering the watch     *)
(* events in order, so a reconcile may read an object older than the       *)
(* stored one.  Time is counted in ticks of the clock; the 72 hours of the *)
(* expiry are 3 ticks, and a tick may fall between two reads of time.Now(). *)
(***************************************************************************)
EXTENDS Integers, Sequences, FiniteSets, TLC

\* ------------------------------------------------------------------ bounds
\* The clock runs from 1 to MaxClock.
MaxClock == 2
\* Clients write the requests' specs MaxEdits times at most.
MaxEdits == 1
\* With the expiry scheduler running the clock runs to MaxClockExpiry, past
\* the expiry of a request created at 1.
MaxClockExpiry == 5

\* ------------------------------------------------------- program constants
\* 72 * time.Hour, in ticks.
TTL == 3
\* Status.Expiry == nil.
NoExpiry == -1
\* var closestExpiry time.Time: the zero time, before every clock value.
ZeroTime == 0
\* time.Now().AddDate(1, 0, 0), in ticks.
Year == 365

failure == "Failure"
pending == "Pending"
approved == "Approved"
messageAUPNotAgreed == "Waiting for the Acceptable Use Policy to be agreed"
messageAUPFailed == "Acceptable Use Policy creation failed"
messageRoleNotFound == "Requested Role / Cluster Role does not exist"
messageRoleNotApproved == "Waiting for Requested Role / Cluster Role to be approved"
messageRoleApproved == "Requested Role / Cluster Role approved successfully"
messageBindingFailed == "Role binding failed"

\* The UID of the kube-system namespace, which names the local cluster.
kubeSystemUID == "local"

\* ------------------------------------------------------------- the objects
Requests == {"r1", "r2"}
RoleNames == {"viewer", "Viewer"}

\* strings.ToLower on the strings the model uses.
ToLower(s) ==
  CASE s = "Viewer" -> "viewer"
    [] s = "Role" -> "role"
    [] s = "ClusterRole" -> "clusterrole"
    [] s = "Group" -> "group"
    [] s = "Client-Certificate" -> "client-certificate"
    [] s = "OIDC" -> "oidc"
    [] OTHER -> s

\* A binding name "edgenet:<a>:<b>" is kept as the pair <<a, b>>.
BindingNames == {"role", "clusterrole"} \X RoleNames

NoStatus == [state |-> "", message |-> "", expiry |-> NoExpiry]
\* The policy back-reference label and any other label of the request.
NoLabels == [aup |-> "", extra |-> ""]
NoSpec == [email |-> "", kind |-> "", name |-> "", approved |-> FALSE, auth |-> <<>>]
\* A request that is not in the store (or not in the cache).
Gone == [exists |-> FALSE, rv |-> 0, spec |-> NoSpec, labels |-> NoLabels,
         status |-> NoStatus]
NoBinding == [exists |-> FALSE, rv |-> 0, subjects |-> <<>>]

VARIABLES
  clock,      \* time.Now()
  nsLabels,   \* the labels of the requests' namespace
  tenant,     \* the tenant named by the namespace's tenant label
  roles,      \* the existing roles, <<kind, name>>
  rr,         \* the stored RoleRequests
  aups,       \* the stored AcceptableUsePolicies, in list order
  rbs,        \* the stored generated RoleBindings of the namespace, by name
  cache,      \* rolerequestsLister: the informer's copy of the RoleRequests
  events,     \* the informer's watch events not yet delivered
  queue,      \* workqueue: the keys waiting, in order
  dirty,      \* workqueue: the keys that need processing
  processing, \* workqueue: the keys a worker holds
  wk,         \* the workers: where each is in processNextWorkItem
  notes,      \* the notifications dispatched so far, per request
  last,       \* what the most recent syncHandler did
  sched,      \* RunExpiryController: its loop position and closestExpiry
  watchq,     \* the expiry controller's watch events not yet received
  edits,      \* the number of writes of a spec by a client so far
  run,        \* Run: whether stopCh is closed, whether Run has returned
  perm,       \* the permission package: its cluster's RBAC objects and results
  core        \* the controllers of core/v1alpha: quota entries, namespaces, quotas

vars == <<clock, nsLabels, tenant, roles, rr, aups, rbs, cache, events, queue,
          dirty, processing, wk, notes, last, sched, watchq, edits, run, perm, core>>

\* What one run of syncHandler did (kept for the properties; the code keeps none).
NoTrace ==
  [key |-> "", ran |-> FALSE, exit |-> "", permitted |-> FALSE, roleExists |-> FALSE,
   delIssued |-> FALSE, delOk |-> FALSE,
   lblIssued |-> FALSE, lblOk |-> FALSE, aupCreated |-> FALSE,
   notePending |-> FALSE, rbOp |-> "none", rbOk |-> FALSE,
   noteApproved |-> FALSE, methods |-> <<>>,
   stIssued |-> FALSE, stOk |-> FALSE, old |-> NoStatus, new |-> NoStatus,
   gone |-> FALSE]

\* The calls of one reconcile that may fail for a reason of the API server or
\* of the network.  "nsGet" stands for either namespace lookup.
Calls == {"nsGet", "tenantGet", "roleList", "aupGet", "aupList", "aupCreate",
          "rrUpdate", "rrDelete", "rbList", "rbWrite", "certGen", "makeConfig",
          "statusUpdate"}
\* A reconcile runs with no failing call or with one.
Faults == {{}} \cup {{c} : c \in Calls}

\* ------------------------------------------------------- applyProcedure
\* The procedure's context: the key, the private copy, the status snapshot,
\* the store as the procedure's calls leave it (rr, aups, rbs), the watch
\* events its writes raise (out), and the locals of the Go function.
Enter(r, obj) ==
  [key |-> r, copy |-> obj, old |-> obj.status, rr |-> rr, aups |-> aups,
   rbs |-> rbs, out |-> <<>>, exit |-> "", permitted |-> FALSE,
   policyAgreed |-> FALSE, aupExists |-> FALSE, listed |-> rbs,
   roleBound |-> FALSE,
   tr |-> [NoTrace EXCEPT !.key = r, !.ran = TRUE, !.old = obj.status]]

\* if roleRequestCopy.Status.Expiry == nil { ... time.Now().Add(72 * time.Hour) }
SetExpiryAlways(x, now) == [x EXCEPT !.copy.status.expiry = now + TTL]
SetExpiry(x, now) ==
  IF x.copy.status.expiry = NoExpiry
    THEN [x EXCEPT !.copy.status.expiry = now + TTL]
    ELSE x

\* (mutant) the tenant is looked up whatever the namespace's cluster UID.
PermissionGateAlwaysTenant(x, F) ==
  IF "nsGet" \in F THEN [x EXCEPT !.exit = "nsErr"]
  ELSE IF "tenantGet" \in F \/ ~tenant.exists THEN [x EXCEPT !.exit = "tenantErr"]
  ELSE LET p == tenant.uid = nsLabels.tenantUID /\ tenant.enabled
       IN [x EXCEPT !.permitted = p, !.tr.permitted = p]

\* The permission gate: the namespace lookups, then the tenant lookup when the
\* namespace carries the local cluster UID.
PermissionGateUIDOnly(x, F) ==
  IF "nsGet" \in F THEN [x EXCEPT !.exit = "nsErr"]
  ELSE IF kubeSystemUID # nsLabels.clusterUID
    THEN [x EXCEPT !.permitted = TRUE, !.tr.permitted = TRUE]
  ELSE IF "tenantGet" \in F \/ ~tenant.exists THEN [x EXCEPT !.exit = "tenantErr"]
  ELSE LET p == tenant.uid = nsLabels.tenantUID
       IN [x EXCEPT !.permitted = p, !.tr.permitted = p]
PermissionGate(x, F) ==
  IF "nsGet" \in F THEN [x EXCEPT !.exit = "nsErr"]
  ELSE IF kubeSystemUID # nsLabels.clusterUID
    THEN [x EXCEPT !.permitted = TRUE, !.tr.permitted = TRUE]
  ELSE IF "tenantGet" \in F \/ ~tenant.exists THEN [x EXCEPT !.exit = "tenantErr"]
  ELSE LET p == tenant.uid = nsLabels.tenantUID /\ tenant.enabled
       IN [x EXCEPT !.permitted = p, !.tr.permitted = p]

\* RoleRequests(ns).Delete(name): the error is dropped.
DeleteRequest(x, F) ==
  LET cur == x.rr[x.key]
      ok == "rrDelete" \notin F /\ cur.exists
  IN [x EXCEPT !.rr[x.key] = IF ok THEN Gone ELSE @,
               !.out = IF ok THEN Append(@, [type |-> "del", key |-> x.key, obj |-> cur])
                             ELSE @,
               !.exit = "denied", !.tr.delIssued = TRUE, !.tr.delOk = ok]

\* The role existence check: a list of the ClusterRoles or of the namespace's
\* Roles and a search for the name; a failed list finds nothing.
RoleExistsAnyKind(x, F) ==
  /\ "roleList" \notin F
  /\ \E k \in {"ClusterRole", "Role"} : <<k, x.copy.spec.name>> \in roles
RoleExists(x, F) ==
  /\ "roleList" \notin F
  /\ x.copy.spec.kind \in {"ClusterRole", "Role"}
  /\ <<x.copy.spec.kind, x.copy.spec.name>> \in roles

RoleCheck(x, F) ==
  IF RoleExists(x, F) THEN [x EXCEPT !.tr.roleExists = TRUE]
  ELSE [x EXCEPT !.copy.status.state = failure,
                 !.copy.status.message = messageRoleNotFound,
                 !.exit = "roleNotFound"]

\* SetLabels(map with the policy label alone), then RoleRequests(ns).Update:
\* on success the copy becomes the object the server returns.
UpdateLabel(x, name, F) ==
  LET c == [x.copy EXCEPT !.labels = [aup |-> name, extra |-> ""]]
      cur == x.rr[x.key]
      ok == "rrUpdate" \notin F /\ cur.exists /\ cur.rv = c.rv
      stored == [cur EXCEPT !.spec = c.spec, !.labels = c.labels, !.rv = @ + 1]
  IN IF ok
       THEN [x EXCEPT !.rr[x.key] = stored, !.copy = stored,
                      !.out = Append(@, [type |-> "upd", key |-> x.key, obj |-> stored]),
                      !.tr.lblIssued = TRUE, !.tr.lblOk = TRUE]
       ELSE [x EXCEPT !.copy = c, !.tr.lblIssued = TRUE]

\* The policy the label names, or the first generated policy of the email.
ResolvePolicy(x, F) ==
  LET lbl == x.copy.labels.aup
      named == {i \in 1..Len(x.aups) : x.aups[i].name = lbl}
      mine == {i \in 1..Len(x.aups) :
                 x.aups[i].generated /\ x.aups[i].email = x.copy.spec.email}
  IN IF lbl # ""
       THEN IF "aupGet" \in F \/ named = {} THEN x
            ELSE LET p == x.aups[CHOOSE i \in named : TRUE]
                 IN IF p.email = x.copy.spec.email
                      THEN [x EXCEPT !.aupExists = TRUE, !.policyAgreed = p.accepted]
                      ELSE x
       ELSE IF "aupList" \in F \/ mine = {} THEN x
            ELSE LET p == x.aups[CHOOSE i \in mine : \A j \in mine : i <= j]
                     y == UpdateLabel(x, p.name, F)
                 IN [y EXCEPT !.aupExists = TRUE, !.policyAgreed = p.accepted]

\* fmt.Sprintf("%s-%s", name, util.GenerateRandomString(6)): a name not yet used.
FreshName(r, ps) == r \o "-" \o ToString(Len(ps) + 1)

\* if aupExists == false: create a generated, unaccepted policy and label the request.
CreatePolicy(x, F) ==
  IF x.aupExists THEN x
  ELSE IF "aupCreate" \in F
    THEN [x EXCEPT !.copy.status.state = failure,
                   !.copy.status.message = messageAUPFailed,
                   !.exit = "aupFailed"]
  ELSE LET name == FreshName(x.key, x.aups)
           p == [name |-> name, email |-> x.copy.spec.email, accepted |-> FALSE,
                 generated |-> TRUE]
       IN UpdateLabel([x EXCEPT !.aups = Append(@, p), !.tr.aupCreated = TRUE], name, F)

\* The consent gate lets every request through.
ConsentGateOpen(x) == x

\* if !policyAgreed
ConsentGate(x) ==
  IF x.policyAgreed THEN x
  ELSE [x EXCEPT !.copy.status.state = pending,
                 !.copy.status.message = messageAUPNotAgreed,
                 !.exit = "notAgreed"]

\* if !roleRequestCopy.Spec.Approved: Pending, and the approvers are notified
\* unless the snapshot was already (Pending, not approved).
ApprovalGateNoGuard(x) ==
  IF x.copy.spec.approved THEN x
  ELSE [x EXCEPT !.copy.status.state = pending,
                 !.copy.status.message = messageRoleNotApproved,
                 !.exit = "notApproved", !.tr.notePending = TRUE]
ApprovalGate(x) ==
  IF x.copy.spec.approved THEN x
  ELSE LET y == [x EXCEPT !.copy.status.state = pending,
                          !.copy.status.message = messageRoleNotApproved]
       IN IF x.old.state = pending /\ x.old.message = messageRoleNotApproved
            THEN [y EXCEPT !.exit = "guard"]
            ELSE [y EXCEPT !.exit = "notApproved", !.tr.notePending = TRUE]

\* The approved branch: the status, then the list of the generated bindings.
ListBindings(x, F) ==
  LET y == [x EXCEPT !.copy.status.state = approved,
                     !.copy.status.message = messageRoleApproved]
  IN IF "rbList" \in F THEN [y EXCEPT !.exit = "rbListErr"]
     ELSE [y EXCEPT !.listed = x.rbs]

\* The name the loop over the listed bindings compares with.
SearchName(spec) ==
  IF spec.kind = "Role" THEN <<"role", spec.name>> ELSE <<"clusterrole", spec.name>>
\* The name the binding is created under.
CreateName(spec) == <<ToLower(spec.kind), ToLower(spec.name)>>

\* A failed write of the binding leaves the status as it was.
BindingFailedKeepsApproved(x, op) == [x EXCEPT !.tr.rbOp = op]

\* A failed write of the binding: Failure, binding failed.
BindingFailed(x, op) ==
  [x EXCEPT !.copy.status.state = failure,
            !.copy.status.message = messageBindingFailed,
            !.tr.rbOp = op]

\* The binding found in the list gets the subject appended (Update), or a new
\* binding is created (Create).
BindRole(x, F) ==
  LET sn == SearchName(x.copy.spec)
      cn == CreateName(x.copy.spec)
      b == x.listed[sn]
      email == x.copy.spec.email
  IN IF b.exists
       THEN IF \E i \in 1..Len(b.subjects) : b.subjects[i] = email
              THEN [x EXCEPT !.roleBound = TRUE]
              ELSE LET cur == x.rbs[sn]
                       ok == "rbWrite" \notin F /\ cur.exists /\ cur.rv = b.rv
                   IN IF ok
                        THEN [x EXCEPT !.rbs[sn] = [b EXCEPT !.subjects = Append(@, email),
                                                             !.rv = @ + 1],
                                       !.roleBound = TRUE,
                                       !.tr.rbOp = "update", !.tr.rbOk = TRUE]
                        ELSE BindingFailed(x, "update")
       ELSE LET ok == "rbWrite" \notin F /\ ~x.rbs[cn].exists
            IN IF ok
                 THEN [x EXCEPT !.rbs[cn] = [exists |-> TRUE, rv |-> 1,
                                             subjects |-> <<email>>],
                                !.roleBound = TRUE,
                                !.tr.rbOp = "create", !.tr.rbOk = TRUE]
                 ELSE BindingFailed(x, "create")

\* (mutant) every requested method is listed, generated or not.
AuthMethodsAll(auth, F) == [i \in DOMAIN auth |-> ToLower(auth[i])]

\* The methods the approved notification lists.
RECURSIVE AuthMethods(_, _)
AuthMethods(auth, F) ==
  IF auth = <<>> THEN <<>>
  ELSE LET m == ToLower(Head(auth))
           rest == AuthMethods(Tail(auth), F)
       IN IF m = "client-certificate"
            THEN IF "certGen" \in F \/ "makeConfig" \in F THEN rest ELSE <<m>> \o rest
          ELSE IF m = "oidc" THEN <<m>> \o rest
          ELSE rest

\* if roleBound: the credentials and the approved notification.
Credentials(x, F) ==
  IF ~x.roleBound THEN [x EXCEPT !.exit = "bindingFailed"]
  ELSE [x EXCEPT !.exit = "approved", !.tr.noteApproved = TRUE,
                 !.tr.methods = AuthMethods(x.copy.spec.auth, F)]

\* defer statusUpdate(): UpdateStatus when the copy's status is not the snapshot.
StatusDiffersStateOnly(old, new) == old.state # new.state
StatusDiffers(old, new) == old # new

StatusUpdate(x, F) ==
  LET cur == x.rr[x.key]
      ok == "statusUpdate" \notin F /\ cur.exists /\ cur.rv = x.copy.rv
      stored == [cur EXCEPT !.status = x.copy.status, !.rv = @ + 1]
      y == [x EXCEPT !.tr.new = x.copy.status, !.tr.exit = x.exit,
                     !.tr.gone = ~cur.exists]
  IN IF ~StatusDiffers(x.old, x.copy.status) THEN y
     ELSE IF ok
       THEN [y EXCEPT !.rr[x.key] = stored,
                      !.out = Append(@, [type |-> "upd", key |-> x.key, obj |-> stored]),
                      !.tr.stIssued = TRUE, !.tr.stOk = TRUE]
       ELSE [y EXCEPT !.tr.stIssued = TRUE]

\* applyProcedure up to the list of the role bindings.
ProcedureHead(x0, now, F) ==
  LET a == PermissionGate(SetExpiry(x0, now), F)
  IN IF a.exit # "" THEN a
     ELSE IF ~a.permitted THEN DeleteRequest(a, F)
     ELSE LET b == RoleCheck(a, F)
          IN IF b.exit # "" THEN b
             ELSE LET c == CreatePolicy(ResolvePolicy(b, F), F)
                  IN IF c.exit # "" THEN c
                     ELSE LET d == ConsentGate(c)
                          IN IF d.exit # "" THEN d
                             ELSE LET e == ApprovalGate(d)
                                  IN IF e.exit # "" THEN e
                                     ELSE ListBindings(e, F)

\* applyProcedure from the binding's write to the deferred status update.
ProcedureTail(x, F) ==
  IF x.exit # "" THEN StatusUpdate(x, F)
  ELSE StatusUpdate(Credentials(BindRole(x, F), F), F)

applyProcedure(r, obj, now, F) == ProcedureTail(ProcedureHead(Enter(r, obj), now, F), F)

\* ------------------------------------------------------------ the workqueue
\* workqueue.Add(key): dropped once the queue is shut down; a key already
\* marked is dropped; a key a worker holds is marked and queued again by Done.
AddWhileHeld(k, st) ==
  IF st.shuttingDown \/ k \in st.dirty THEN st
  ELSE [st EXCEPT !.dirty = @ \cup {k}, !.queue = Append(@, k)]
Add(k, st) ==
  IF st.shuttingDown \/ k \in st.dirty THEN st
  ELSE [st EXCEPT !.dirty = @ \cup {k},
                  !.queue = IF k \in st.processing THEN @ ELSE Append(@, k)]

\* workqueue.Done(key)
Done(k, st) ==
  [st EXCEPT !.processing = @ \ {k},
             !.queue = IF k \in st.dirty THEN Append(@, k) ELSE @]

WorkQueue ==
  [queue |-> queue, dirty |-> dirty, processing |-> processing,
   shuttingDown |-> run.returned]

\* ------------------------------------------------------------- the informer
\* AddFunc: enqueueRoleRequest.  UpdateFunc: enqueueRoleRequest unless the
\* specs are deeply equal.  No DeleteFunc.
HandlerEnqueuesAll(e, old) == e.type \in {"add", "upd"}
HandlerEnqueues(e, old) ==
  \/ e.type = "add"
  \/ e.type = "upd" /\ e.obj.spec # old.spec

\* The informer takes the next watch event: the lister's copy is replaced and
\* the event handler runs.
InformerDeliver ==
  /\ events # <<>>
  /\ LET e == Head(events)
         old == cache[e.key]
         st == IF HandlerEnqueues(e, old) THEN Add(e.key, WorkQueue) ELSE WorkQueue
     IN /\ cache' = [cache EXCEPT ![e.key] = IF e.type = "del" THEN Gone ELSE e.obj]
        /\ events' = Tail(events)
        /\ queue' = st.queue
        /\ dirty' = st.dirty
        /\ processing' = st.processing
  /\ UNCHANGED <<clock, nsLabels, tenant, roles, rr, aups, rbs, wk, notes, last,
                 sched, watchq, edits, run, perm, core>>

\* The watch of the expiry controller passes on the objects with an expiry.
WatchSend(out) ==
  IF sched.pc \in {"off", "start"} THEN <<>>
  ELSE SelectSeq(out, LAMBDA e : e.obj.status.expiry # NoExpiry)

\* --------------------------------------------------------------- the workers
Idle == [pc |-> "idle", key |-> ""]

\* processNextWorkItem: obj, shutdown := c.workqueue.Get()
WorkerGet(w) ==
  /\ wk[w].pc = "idle"
  /\ queue # <<>>
  /\ LET k == Head(queue)
     IN /\ queue' = Tail(queue)
        /\ processing' = processing \cup {k}
        /\ dirty' = dirty \ {k}
        /\ wk' = [wk EXCEPT ![w] = [pc |-> "sync", key |-> k]]
  /\ UNCHANGED <<clock, nsLabels, tenant, roles, rr, aups, rbs, cache, events,
                 notes, last, sched, watchq, edits, run, perm, core>>

\* What syncHandler finds for the key: the lister's object is absent, is
\* Approved already, or goes through applyProcedure.
SkipsApproved(obj) == obj.status.state = approved
Skips(obj) == ~obj.exists \/ obj.status.state = approved

\* The stored status of a request is (Pending, not approved).
StoredNotApproved(obj) ==
  /\ obj.exists
  /\ obj.status.state = pending
  /\ obj.status.message = messageRoleNotApproved

\* The notifications a reconcile dispatches: the pending-approval ones, the
\* approved ones, and (since) the pending-approval ones dispatched since the
\* stored status became (Pending, not approved); before and after are the
\* stored request when the reconcile starts and when it ends.
Noted(ns, tr, before, after) ==
  LET p == IF tr.notePending THEN 1 ELSE 0
      a == IF tr.noteApproved THEN 1 ELSE 0
  IN [ns EXCEPT ![tr.key] =
        [pending |-> @.pending + p,
         approved |-> @.approved + a,
         since |-> IF StoredNotApproved(before) /\ StoredNotApproved(after)
                     THEN @.since + p ELSE 0]]

\* processNextWorkItem from syncHandler to Forget and Done, with the whole of
\* applyProcedure.  syncHandler returns nil on every path the lister allows,
\* so the key is never added again with AddRateLimited.
WorkerSync(w) ==
  /\ wk[w].pc = "sync"
  /\ LET r == wk[w].key
         obj == cache[r]
         st == Done(r, WorkQueue)
     IN /\ queue' = st.queue
        /\ dirty' = st.dirty
        /\ processing' = st.processing
        /\ wk' = [wk EXCEPT ![w] = Idle]
        /\ IF Skips(obj)
             THEN /\ last' = [NoTrace EXCEPT !.key = r]
                  /\ UNCHANGED <<rr, aups, rbs, events, notes, watchq, core>>
             ELSE \E F \in Faults :
                    LET x == applyProcedure(r, obj, clock, F)
                    IN /\ rr' = x.rr
                       /\ aups' = x.aups
                       /\ rbs' = x.rbs
                       /\ events' = events \o x.out
                       /\ watchq' = watchq \o WatchSend(x.out)
                       /\ notes' = Noted(notes, x.tr, rr[r], x.rr[r])
                       /\ last' = x.tr
  /\ UNCHANGED <<clock, nsLabels, tenant, roles, cache, sched, edits, run, perm, core>>

\* ----------------------------------------------------------- the environment
RoleRefs == {<<"ClusterRole", "viewer">>, <<"Role", "Viewer">>, <<"Role", "viewer">>}

\* A client writes the request's spec: an approver sets or clears the approval
\* flag, or the requester names another role.
UserUpdate(r) ==
  /\ rr[r].exists
  /\ edits < MaxEdits
  /\ edits' = edits + 1
  /\ \E s \in {[rr[r].spec EXCEPT !.approved = ~@]}
              \cup {[rr[r].spec EXCEPT !.kind = ref[1], !.name = ref[2]] : ref \in RoleRefs} :
       /\ s # rr[r].spec
       /\ LET stored == [rr[r] EXCEPT !.spec = s, !.rv = @ + 1]
              e == [type |-> "upd", key |-> r, obj |-> stored]
          IN /\ rr' = [rr EXCEPT ![r] = stored]
             /\ events' = Append(events, e)
             /\ watchq' = watchq \o WatchSend(<<e>>)
  /\ UNCHANGED <<clock, nsLabels, tenant, roles, aups, rbs, cache, queue, dirty,
                 processing, wk, notes, last, sched, run, perm, core>>

\* The user of a policy accepts it.
AcceptPolicy(i) ==
  /\ i \in 1..Len(aups)
  /\ ~aups[i].accepted
  /\ aups' = [aups EXCEPT ![i].accepted = TRUE]
  /\ UNCHANGED <<clock, nsLabels, tenant, roles, rr, rbs, cache, events, queue,
                 dirty, processing, wk, notes, last, sched, watchq, edits, run, perm, core>>

\* Time passes, up to a limit.
Advance(limit) ==
  /\ clock < limit
  /\ clock' = clock + 1
  /\ UNCHANGED <<nsLabels, tenant, roles, rr, aups, rbs, cache, events, queue,
                 dirty, processing, wk, notes, last, sched, watchq, edits, run, perm, core>>

Tick == Advance(MaxClock)

\* ------------------------------------------------------------ initial states
Policy(n, e, a, g) == [name |-> n, email |-> e, accepted |-> a, generated |-> g]

\* The policies in the store and the label the request is created with.
InitPolicies ==
  {[aups |-> <<>>, label |-> ""],
   [aups |-> <<>>, label |-> "missing"],
   [aups |-> <<Policy("a-1", "a@x", FALSE, TRUE)>>, label |-> ""],
   [aups |-> <<Policy("a-1", "a@x", TRUE, TRUE)>>, label |-> ""],
   [aups |-> <<Policy("curated", "a@x", TRUE, FALSE)>>, label |-> "curated"],
   [aups |-> <<Policy("b-1", "b@x", TRUE, TRUE)>>, label |-> ""],
   [aups |-> <<Policy("b-1", "b@x", TRUE, TRUE)>>, label |-> "b-1"]}

NoTenant == [exists |-> FALSE, uid |-> "", enabled |-> FALSE]
Tenant(u, en) == [exists |-> TRUE, uid |-> u, enabled |-> en]
Namespace(c) == [clusterUID |-> c, tenantUID |-> "t1"]

\* The namespace and its tenant: a namespace of another cluster, or a local
\* one whose tenant is missing, is another's, is disabled, or is in order.
InitOwners ==
  {[ns |-> Namespace("remote"), tenant |-> Tenant("t1", TRUE)]}
    \cup {[ns |-> Namespace("local"), tenant |-> t] :
            t \in {NoTenant} \cup {Tenant(u, en) : u \in {"t1", "t2"}, en \in BOOLEAN}}

InitBindings ==
  {[n \in BindingNames |-> NoBinding]}
    \cup {[n \in BindingNames |->
             IF n = <<"clusterrole", "viewer">>
               THEN [exists |-> TRUE, rv |-> 1, subjects |-> ss]
               ELSE NoBinding] : ss \in {<<"b@x">>, <<"a@x">>}}

NewRequest(email, ref, appr, auth, label) ==
  [exists |-> TRUE, rv |-> 1,
   spec |-> [email |-> email, kind |-> ref[1], name |-> ref[2], approved |-> appr,
             auth |-> auth],
   labels |-> [aup |-> label, extra |-> "x"],
   status |-> NoStatus]

NoNotes == [r \in Requests |-> [pending |-> 0, approved |-> 0, since |-> 0]]

\* Run is blocked on stopCh.
Running == [stopped |-> FALSE, returned |-> FALSE]
\* The permission package is not in use.
NoPerm == [pc |-> "off"]
\* The controllers of core/v1alpha are not in use.
NoCore == [pc |-> "off"]

\* The expiry controller before its watch is open.
\* blocked counts the instances held at the send on `terminated`; listFailed
\* tells whether the List of the last timer fire failed.
SchedOff ==
  [pc |-> "off", closestExpiry |-> ZeroTime, seen |-> {}, deleted |-> {},
   blocked |-> 0, listFailed |-> FALSE]

\* One request has just been created; the informer has not seen it yet.  The
\* clock stays below every expiry, so the expiry controller has nothing to
\* delete and is left out.
Init ==
  /\ clock = 1
  /\ \E o \in InitOwners : nsLabels = o.ns /\ tenant = o.tenant
  /\ roles = {<<"ClusterRole", "viewer">>, <<"Role", "Viewer">>}
  /\ \E ip \in InitPolicies, ref \in RoleRefs, appr \in BOOLEAN :
       /\ aups = ip.aups
       /\ rr = [r \in Requests |->
                  IF r = "r1"
                    THEN NewRequest("a@x", ref, appr, <<"Client-Certificate", "oidc">>,
                                    ip.label)
                    ELSE Gone]
  /\ rbs \in InitBindings
  /\ cache = [r \in Requests |-> Gone]
  /\ events = <<[type |-> "add", key |-> "r1", obj |-> rr["r1"]]>>
  /\ queue = <<>>
  /\ dirty = {}
  /\ processing = {}
  /\ wk = [w \in {"w1"} |-> Idle]
  /\ notes = NoNotes
  /\ last = NoTrace
  /\ sched = SchedOff
  /\ watchq = <<>>
  /\ edits = 0
  /\ run = Running
  /\ core = NoCore
  /\ perm = NoPerm

Next ==
  \/ InformerDeliver
  \/ \E w \in DOMAIN wk : WorkerGet(w)
  \/ \E w \in DOMAIN wk : WorkerSync(w)
  \/ \E r \in Requests : UserUpdate(r)
  \/ \E i \in 1..Len(aups) : AcceptPolicy(i)
  \/ Tick

Spec == Init /\ [][Next]_vars

\* ------------------------------------------------ every namespace and tenant
\* One request has just been created in a namespace that carries the local
\* cluster UID, another cluster's, or no cluster-uid label (the empty string
\* of a missing map key); its tenant is missing, is another's, is disabled or
\* is in order.
InitGate ==
  /\ clock = 1
  /\ nsLabels \in {Namespace(c) : c \in {"local", "remote", ""}}
  /\ tenant \in {NoTenant} \cup {Tenant(u, en) : u \in {"t1", "t2"}, en \in BOOLEAN}
  /\ roles = {<<"ClusterRole", "viewer">>, <<"Role", "Viewer">>}
  /\ aups \in {<<>>, <<Policy("a-1", "a@x", FALSE, TRUE)>>}
  /\ \E appr \in BOOLEAN :
       rr = [r \in Requests |->
               IF r = "r1"
                 THEN NewRequest("a@x", <<"ClusterRole", "viewer">>, appr,
                                 <<"Client-Certificate", "oidc">>, "")
                 ELSE Gone]
  /\ rbs = [n \in BindingNames |-> NoBinding]
  /\ cache = [r \in Requests |-> Gone]
  /\ events = <<[type |-> "add", key |-> "r1", obj |-> rr["r1"]]>>
  /\ queue = <<>>
  /\ dirty = {}
  /\ processing = {}
  /\ wk = [w \in {"w1"} |-> Idle]
  /\ notes = NoNotes
  /\ last = NoTrace
  /\ sched = SchedOff
  /\ watchq = <<>>
  /\ edits = 0
  /\ run = Running
  /\ core = NoCore
  /\ perm = NoPerm

SpecGate == InitGate /\ [][Next]_vars

\* ------------------------------------------------- the expiry controller
\* roleRequestRow.Status.Expiry != nil && Expiry.Time.Sub(time.Now()) <= 0
ExpiredNoNilCheck(e, now) == e <= now
Expired(e, now) == e # NoExpiry /\ e <= now
\* roleRequestRow.Status.Expiry != nil && Expiry.Time.Sub(time.Now()) > 0
Future(e, now) == e # NoExpiry /\ e > now

\* RoleRequests("").List: the stored requests, in the order of their names.
ListRequests == SelectSeq(<<"r1", "r2">>, LAMBDA r : rr[r].exists)

\* The loop over the listed rows, for closestExpiry: a row that is not deleted
\* and expires later replaces a deadline that has passed or is later.
RECURSIVE ScanRows(_, _, _)
ScanRows(rows, ce, now) ==
  IF rows = <<>> THEN ce
  ELSE LET e == rr[Head(rows)].status.expiry
           next == IF ~Expired(e, now) /\ Future(e, now) /\ (ce <= now \/ ce > e)
                     THEN e ELSE ce
       IN ScanRows(Tail(rows), next, now)

\* The DELETED events of the rows the loop deletes, in list order.
RECURSIVE Deletions(_, _)
Deletions(rows, now) ==
  IF rows = <<>> THEN <<>>
  ELSE LET r == Head(rows)
           rest == Deletions(Tail(rows), now)
       IN IF Expired(rr[r].status.expiry, now)
            THEN <<[type |-> "del", key |-> r, obj |-> rr[r]]>> \o rest
            ELSE rest

\* if closestExpiry.Sub(timeout) > 0 { closestExpiry = timeout }
RearmAlways(ce, t) == t
Rearm(ce, t) == IF ce > t THEN t ELSE ce

\* case timeout := <-newExpiry: the watch goroutine hands over the expiry of
\* the next event; an earlier expiry becomes the deadline.
WatchEvent ==
  /\ sched.pc = "run"
  /\ watchq # <<>>
  /\ LET e == Head(watchq)
         t == e.obj.status.expiry
     IN sched' = [sched EXCEPT
                    !.closestExpiry = Rearm(sched.closestExpiry, t),
                    !.seen = @ \cup {<<e.key, t>>}]
  /\ watchq' = Tail(watchq)
  /\ UNCHANGED <<clock, nsLabels, tenant, roles, rr, aups, rbs, cache, events, queue,
                 dirty, processing, wk, notes, last, edits, run, perm, core>>

\* if closestExpiry.Sub(time.Now()) <= 0 { closestExpiry = time.Now().AddDate(1, 0, 0) }
AddYearNever(ce, now) == ce
AddYear(ce, now) == IF ce <= now THEN now + Year ELSE ce

\* case <-time.After(time.Until(closestExpiry)): the list, the deletes of the
\* expired rows, the next deadline, and a deadline a year ahead when none is
\* left.  The loop reads the time at `clock`; the last read (nowEnd) is at the
\* same tick or at the next.
TimerFire ==
  /\ sched.pc = "run"
  /\ clock >= sched.closestExpiry
  /\ \E nowEnd \in {clock, clock + 1} :
       /\ nowEnd <= MaxClockExpiry
       /\ LET rows == ListRequests
              gone == Deletions(rows, clock)
              del == {gone[i].key : i \in 1..Len(gone)}
              ce == ScanRows(rows, sched.closestExpiry, clock)
          IN /\ rr' = [r \in Requests |-> IF r \in del THEN Gone ELSE rr[r]]
             /\ events' = events \o gone
             /\ watchq' = watchq \o WatchSend(gone)
             /\ sched' = [sched EXCEPT
                            !.closestExpiry = AddYear(ce, nowEnd),
                            !.deleted = del,
                            !.listFailed = FALSE]
             /\ clock' = nowEnd
  /\ UNCHANGED <<nsLabels, tenant, roles, aups, rbs, cache, queue, dirty, processing,
                 wk, notes, last, edits, run, perm, core>>

TickExpiry == Advance(MaxClockExpiry)

\* A request created earlier: reconciled, Approved, its expiry stored.
OlderRequest(email, ref, e) ==
  [exists |-> TRUE, rv |-> 3,
   spec |-> [email |-> email, kind |-> ref[1], name |-> ref[2], approved |-> TRUE,
             auth |-> <<"oidc">>],
   labels |-> [aup |-> "b-1", extra |-> ""],
   status |-> [state |-> approved, message |-> messageRoleApproved, expiry |-> e]]

\* The controller when Run starts the expiry controller: one request has just
\* been created, another may be there from before.
ExpiryStore ==
  /\ clock = 1
  /\ nsLabels = Namespace("remote")
  /\ tenant = Tenant("t1", TRUE)
  /\ roles = {<<"ClusterRole", "viewer">>, <<"Role", "Viewer">>}
  /\ aups \in {<<Policy("b-1", "b@x", TRUE, TRUE)>>,
               <<Policy("b-1", "b@x", TRUE, TRUE), Policy("a-1", "a@x", TRUE, TRUE)>>}
  /\ \E appr \in BOOLEAN, old \in {Gone} \cup
                  {OlderRequest("b@x", <<"ClusterRole", "viewer">>, e) : e \in {2, 3}} :
       rr = [r \in Requests |->
               IF r = "r1"
                 THEN NewRequest("a@x", <<"ClusterRole", "viewer">>, appr,
                                 <<"Client-Certificate", "oidc">>, "")
                 ELSE old]
  /\ rbs = [n \in BindingNames |->
              IF n = <<"clusterrole", "viewer">>
                THEN [exists |-> TRUE, rv |-> 1, subjects |-> <<"b@x">>]
                ELSE NoBinding]
  /\ cache = [r \in Requests |-> IF r = "r1" THEN Gone ELSE rr[r]]
  /\ events = <<[type |-> "add", key |-> "r1", obj |-> rr["r1"]]>>
  /\ queue = <<>>
  /\ dirty = {}
  /\ processing = {}
  /\ wk = [w \in {"w1"} |-> Idle]
  /\ notes = NoNotes
  /\ last = NoTrace
  /\ edits = 0
  /\ run = Running
  /\ core = NoCore
  /\ perm = NoPerm

\* The ADDED events a new watch starts with: the stored requests that have an
\* expiry.
InitialEvents ==
  LET rows == SelectSeq(ListRequests, LAMBDA r : rr[r].status.expiry # NoExpiry)
  IN [i \in DOMAIN rows |-> [type |-> "add", key |-> rows[i], obj |-> rr[rows[i]]]]

\* The watch has been opened and starts with the ADDED events.
InitExpiry ==
  /\ ExpiryStore
  /\ sched = [SchedOff EXCEPT !.pc = "run"]
  /\ watchq = InitialEvents

\* ------------------------------------- the expiry controller from its start
MaxWatchFailures == 1

\* RoleRequests("").Watch returns an error: `go c.RunExpiryController()` starts
\* a fresh instance and this one sends on `terminated`, a channel without a
\* buffer whose only receiver is the select this instance has not reached.
WatchFails ==
  /\ sched.pc = "start"
  /\ sched.blocked < MaxWatchFailures
  /\ sched' = [sched EXCEPT !.blocked = @ + 1]
  /\ UNCHANGED <<clock, nsLabels, tenant, roles, rr, aups, rbs, cache, events, queue,
                 dirty, processing, wk, notes, last, watchq, edits, run, perm, core>>

\* RoleRequests("").Watch succeeds: the watch goroutine is started and the
\* instance enters its loop.
WatchOpens ==
  /\ sched.pc = "start"
  /\ sched' = [sched EXCEPT !.pc = "run"]
  /\ watchq' = InitialEvents
  /\ UNCHANGED <<clock, nsLabels, tenant, roles, rr, aups, rbs, cache, events, queue,
                 dirty, processing, wk, notes, last, edits, run, perm, core>>

\* The timer case when the List fails: the error is logged and the result is
\* used all the same.  A nil list makes `roleRequestRaw.Items` panic; a list
\* without items leaves the loop empty, and the deadline, which has passed,
\* is set a year ahead.
TimerFireListFails ==
  /\ sched.pc = "run"
  /\ clock >= sched.closestExpiry
  /\ \/ /\ sched' = [sched EXCEPT !.pc = "crashed", !.listFailed = TRUE]
        /\ UNCHANGED clock
     \/ \E nowEnd \in {clock, clock + 1} :
          /\ nowEnd <= MaxClockExpiry
          /\ LET ce == ScanRows(<<>>, sched.closestExpiry, clock)
             IN sched' = [sched EXCEPT
                            !.closestExpiry = AddYear(ce, nowEnd),
                            !.deleted = {},
                            !.listFailed = TRUE]
          /\ clock' = nowEnd
  /\ UNCHANGED <<nsLabels, tenant, roles, rr, aups, rbs, cache, events, queue, dirty,
                 processing, wk, notes, last, watchq, edits, run, perm, core>>

InitSched ==
  /\ ExpiryStore
  /\ sched = [SchedOff EXCEPT !.pc = "start"]
  /\ watchq = <<>>

\* The panic of a goroutine ends the process.
Alive == sched.pc # "crashed"

NextSched ==
  \/ Alive /\ InformerDeliver
  \/ Alive /\ \E w \in DOMAIN wk : WorkerGet(w)
  \/ Alive /\ \E w \in DOMAIN wk : WorkerSync(w)
  \/ WatchFails
  \/ WatchOpens
  \/ WatchEvent
  \/ TimerFire
  \/ TimerFireListFails
  \/ Alive /\ TickExpiry

SpecSched == InitSched /\ [][NextSched]_vars

NextExpiry ==
  \/ InformerDeliver
  \/ \E w \in DOMAIN wk : WorkerGet(w)
  \/ \E w \in DOMAIN wk : WorkerSync(w)
  \/ WatchEvent
  \/ TimerFire
  \/ TickExpiry

SpecExpiry == InitExpiry /\ [][NextExpiry]_vars

\* ------------------------------------------------------- two workers at once
\* syncHandler and applyProcedure up to the list of the role bindings: the
\* worker keeps the procedure's context for the rest.
WorkerBegin(w) ==
  /\ wk[w].pc = "sync"
  /\ LET r == wk[w].key
         obj == cache[r]
         st == Done(r, WorkQueue)
     IN IF Skips(obj)
          THEN /\ queue' = st.queue
               /\ dirty' = st.dirty
               /\ processing' = st.processing
               /\ wk' = [wk EXCEPT ![w] = Idle]
               /\ last' = [NoTrace EXCEPT !.key = r]
               /\ UNCHANGED <<rr, aups, events, watchq, core>>
          ELSE LET x == ProcedureHead(Enter(r, obj), clock, {})
               IN /\ rr' = x.rr
                  /\ aups' = x.aups
                  /\ events' = events \o x.out
                  /\ watchq' = watchq \o WatchSend(x.out)
                  /\ wk' = [wk EXCEPT ![w] = [pc |-> "bind", key |-> r, ctx |-> x]]
                  /\ UNCHANGED <<queue, dirty, processing, last, core>>
  /\ UNCHANGED <<clock, nsLabels, tenant, roles, rbs, cache, notes, sched, edits, run, perm, core>>

\* applyProcedure from the write of the role binding to the deferred status
\* update, on the store as it is now, then Forget and Done.
WorkerFinish(w) ==
  /\ wk[w].pc = "bind"
  /\ LET r == wk[w].key
         x == [wk[w].ctx EXCEPT !.rr = rr, !.aups = aups, !.rbs = rbs, !.out = <<>>]
         y == ProcedureTail(x, {})
         st == Done(r, WorkQueue)
     IN /\ rr' = y.rr
        /\ rbs' = y.rbs
        /\ events' = events \o y.out
        /\ watchq' = watchq \o WatchSend(y.out)
        /\ notes' = Noted(notes, y.tr, rr[r], y.rr[r])
        /\ last' = y.tr
        /\ queue' = st.queue
        /\ dirty' = st.dirty
        /\ processing' = st.processing
        /\ wk' = [wk EXCEPT ![w] = Idle]
  /\ UNCHANGED <<clock, nsLabels, tenant, roles, aups, cache, sched, edits, run, perm, core>>

\* Two approved requests of two users have just been created; each user has
\* accepted a policy; the role's binding is absent or holds another subject.
InitConc ==
  /\ clock = 1
  /\ nsLabels = Namespace("remote")
  /\ tenant = Tenant("t1", TRUE)
  /\ roles = {<<"ClusterRole", "viewer">>, <<"Role", "Viewer">>}
  /\ aups = <<Policy("a-1", "a@x", TRUE, TRUE), Policy("b-1", "b@x", TRUE, TRUE)>>
  /\ \E ref \in {<<"ClusterRole", "viewer">>, <<"Role", "viewer">>} :
       rr = [r \in Requests |->
               IF r = "r1"
                 THEN NewRequest("a@x", <<"ClusterRole", "viewer">>, TRUE,
                                 <<"Client-Certificate", "oidc">>, "a-1")
                 ELSE NewRequest("b@x", ref, TRUE, <<"oidc">>, "b-1")]
  /\ rbs \in {[n \in BindingNames |-> NoBinding],
              [n \in BindingNames |->
                 IF n = <<"clusterrole", "viewer">>
                   THEN [exists |-> TRUE, rv |-> 1, subjects |-> <<"c@x">>]
                   ELSE NoBinding]}
  /\ cache = [r \in Requests |-> Gone]
  /\ events = <<[type |-> "add", key |-> "r1", obj |-> rr["r1"]],
                [type |-> "add", key |-> "r2", obj |-> rr["r2"]]>>
  /\ queue = <<>>
  /\ dirty = {}
  /\ processing = {}
  /\ wk = [w \in {"w1", "w2"} |-> Idle]
  /\ notes = NoNotes
  /\ last = NoTrace
  /\ sched = SchedOff
  /\ watchq = <<>>
  /\ edits = 0
  /\ run = Running
  /\ core = NoCore
  /\ perm = NoPerm

NextConc ==
  \/ InformerDeliver
  \/ \E w \in DOMAIN wk : WorkerGet(w)
  \/ \E w \in DOMAIN wk : WorkerBegin(w)
  \/ \E w \in DOMAIN wk : WorkerFinish(w)

SpecConc == InitConc /\ [][NextConc]_vars

\* ------------------------------------------ the queue under every enqueue
\* processNextWorkItem when syncHandler returns an error (the lister's Get
\* failed otherwise than by not-found): AddRateLimited, then Done; the
\* procedure has not run.
WorkerRequeue(w) ==
  /\ wk[w].pc = "sync"
  /\ LET r == wk[w].key
         st == Done(r, Add(r, WorkQueue))
     IN /\ queue' = st.queue
        /\ dirty' = st.dirty
        /\ processing' = st.processing
        /\ wk' = [wk EXCEPT ![w] = Idle]
        /\ last' = [NoTrace EXCEPT !.key = r]
  /\ UNCHANGED <<clock, nsLabels, tenant, roles, rr, aups, rbs, cache, events, notes,
                 sched, watchq, edits, run, perm, core>>

\* Two workers, two requests, clients writing the specs, and handlers that
\* end with an error.
NextQueue ==
  \/ InformerDeliver
  \/ \E w \in DOMAIN wk : WorkerGet(w)
  \/ \E w \in DOMAIN wk : WorkerBegin(w)
  \/ \E w \in DOMAIN wk : WorkerFinish(w)
  \/ \E w \in DOMAIN wk : WorkerRequeue(w)
  \/ \E r \in Requests : UserUpdate(r)

SpecQueue == InitConc /\ [][NextQueue]_vars

\* ------------------------------------- a deadline during a reconcile
\* A request waits for approval, its expiry stored by an earlier reconcile;
\* the approval has just been given and its event delivered, so the key is
\* queued; the expiry is about to elapse.
InitRace ==
  /\ clock = 1
  /\ nsLabels = Namespace("remote")
  /\ tenant = Tenant("t1", TRUE)
  /\ roles = {<<"ClusterRole", "viewer">>, <<"Role", "Viewer">>}
  /\ aups = <<Policy("a-1", "a@x", TRUE, TRUE)>>
  /\ \E e \in {1, 2}, ref \in {<<"ClusterRole", "viewer">>, <<"Role", "Viewer">>} :
       rr = [r \in Requests |->
               IF r = "r1"
                 THEN [OlderRequest("a@x", ref, e) EXCEPT
                         !.labels.aup = "a-1",
                         !.status.state = pending,
                         !.status.message = messageRoleNotApproved]
                 ELSE Gone]
  /\ rbs \in {[n \in BindingNames |-> NoBinding],
              [n \in BindingNames |->
                 IF n = <<"clusterrole", "viewer">>
                   THEN [exists |-> TRUE, rv |-> 1, subjects |-> <<"b@x">>]
                   ELSE NoBinding]}
  /\ cache = rr
  /\ events = <<>>
  /\ queue = <<"r1">>
  /\ dirty = {"r1"}
  /\ processing = {}
  /\ wk = [w \in {"w1"} |-> Idle]
  /\ notes = NoNotes
  /\ last = NoTrace
  /\ sched = [SchedOff EXCEPT !.pc = "run"]
  /\ watchq = InitialEvents
  /\ edits = 0
  /\ run = Running
  /\ core = NoCore
  /\ perm = NoPerm

NextRace ==
  \/ InformerDeliver
  \/ \E w \in DOMAIN wk : WorkerGet(w)
  \/ \E w \in DOMAIN wk : WorkerBegin(w)
  \/ \E w \in DOMAIN wk : WorkerFinish(w)
  \/ \E r \in Requests : UserUpdate(r)
  \/ WatchEvent
  \/ TimerFire
  \/ TickExpiry

SpecRace == InitRace /\ [][NextRace]_vars

\* ------------------------------------------------------------------ the stop
\* stopCh is closed.
StopSignal ==
  /\ ~run.stopped
  /\ run' = [run EXCEPT !.stopped = TRUE]
  /\ UNCHANGED <<clock, nsLabels, tenant, roles, rr, aups, rbs, cache, events, queue,
                 dirty, processing, wk, notes, last, sched, watchq, edits, perm, core>>

\* Run: <-stopCh has returned; the deferred workqueue.ShutDown() runs and Run
\* returns nil.
RunReturns ==
  /\ run.stopped
  /\ ~run.returned
  /\ run' = [run EXCEPT !.returned = TRUE]
  /\ UNCHANGED <<clock, nsLabels, tenant, roles, rr, aups, rbs, cache, events, queue,
                 dirty, processing, wk, notes, last, sched, watchq, edits, perm, core>>

\* workqueue.Get() on the empty queue that has been shut down reports the
\* shutdown: processNextWorkItem returns false and runWorker ends.
WorkerExit(w) ==
  /\ wk[w].pc = "idle"
  /\ queue = <<>>
  /\ run.returned
  /\ wk' = [wk EXCEPT ![w] = [pc |-> "exited", key |-> ""]]
  /\ UNCHANGED <<clock, nsLabels, tenant, roles, rr, aups, rbs, cache, events, queue,
                 dirty, processing, notes, last, sched, watchq, edits, run, perm, core>>

\* The controller with its expiry controller, and the stop of Run.
NextStop ==
  \/ InformerDeliver
  \/ \E w \in DOMAIN wk : WorkerGet(w)
  \/ \E w \in DOMAIN wk : WorkerBegin(w)
  \/ \E w \in DOMAIN wk : WorkerFinish(w)
  \/ \E w \in DOMAIN wk : WorkerExit(w)
  \/ WatchEvent
  \/ TimerFire
  \/ TickExpiry
  \/ StopSignal
  \/ RunReturns

SpecStop == InitExpiry /\ [][NextStop]_vars

\* ------------------------------------------------------ the permission package
\* The role bindings a namespace may hold at once.
MaxBindings == 2

PermNamespaces == {"ns1", "ns2"}
AuthorityNames == {"a1", "a2"}
EdgenetGroup == "apps.edgenet.io"

Subject(k, n) == [kind |-> k, name |-> n]
SubjectLists ==
  {{}, {Subject("User", "a@x")}, {Subject("User", "b@x")},
   {Subject("ServiceAccount", "a@x")},
   {Subject("User", "b@x"), Subject("User", "a@x")}}
PermRoleRefs ==
  {[kind |-> "Role", name |-> "admin"], [kind |-> "ClusterRole", name |-> "admin"],
   [kind |-> "Role", name |-> "viewer"]}
RoleBindings ==
  [namespace : PermNamespaces, subjects : SubjectLists, roleRef : PermRoleRefs]

\* The sets of at most MaxBindings role bindings.
RECURSIVE BindingSets(_)
BindingSets(n) ==
  IF n = 0 THEN {{}}
  ELSE LET less == BindingSets(n - 1)
       IN  less \cup {bs \cup {b} : bs \in less, b \in RoleBindings}

PolicyRules ==
  [apiGroups : {{EdgenetGroup}, {"rbac.authorization.k8s.io"},
                {"rbac.authorization.k8s.io", EdgenetGroup}},
   resources : {{"rolerequests"}, {"users"}, {"users", "rolerequests"}},
   resourceNames : SUBSET {"r1", "r2"}]
NoRole == [exists |-> FALSE, rules |-> {}]
Role(rules) == [exists |-> TRUE, rules |-> rules]
GrantAll ==
  Role({[apiGroups |-> {EdgenetGroup}, resources |-> {"rolerequests"},
         resourceNames |-> {}]})

\* The roles of the namespaces: ns1/admin is any role of at most one rule.
PermRoles ==
  {[k \in PermNamespaces \X {"admin", "viewer"} |->
      IF k = <<"ns1", "admin">> THEN admin
      ELSE IF k = <<"ns1", "viewer">> THEN viewer
      ELSE IF k = <<"ns2", "admin">> THEN other
      ELSE NoRole] :
     admin \in {NoRole, Role({})} \cup {Role({rule}) : rule \in PolicyRules},
     viewer \in {NoRole, GrantAll}, other \in {NoRole, GrantAll}}

\* Clientset.RbacV1().RoleBindings(namespace).List: the error is dropped, and a
\* failed call leaves the empty list.
ListRoleBindings(bindings, namespace, F) ==
  IF "list" \in F THEN {} ELSE {b \in bindings : b.namespace = namespace}

\* Clientset.RbacV1().Roles(namespace).Get: the error is dropped, and a failed
\* call (a missing role included) leaves the empty role.
GetRole(rolesOf, namespace, name, F) ==
  IF "get" \in F THEN NoRole ELSE rolesOf[<<namespace, name>>]

\* The rule test with the resource names left out.
RuleGrantsAnyName(rule, resource, resourceName) ==
  /\ EdgenetGroup \in rule.apiGroups
  /\ resource \in rule.resources

\* CheckAuthorization: the loops over a rule's APIGroups, Resources and
\* ResourceNames.
RuleGrants(rule, resource, resourceName) ==
  /\ EdgenetGroup \in rule.apiGroups
  /\ resource \in rule.resources
  /\ IF rule.resourceNames # {}
       THEN \E ruleResourceName \in rule.resourceNames :
              ruleResourceName = resourceName
       ELSE TRUE

\* CheckAuthorization: authorized is set in some iteration of the loops.
CheckAuthorization(bindings, rolesOf, namespace, email, resource, resourceName, F) ==
  \E roleBindingRow \in ListRoleBindings(bindings, namespace, F) :
    \E subject \in roleBindingRow.subjects :
      /\ subject.kind = "User" /\ subject.name = email
      /\ roleBindingRow.roleRef.kind = "Role"
      /\ \E rule \in GetRole(rolesOf, namespace, roleBindingRow.roleRef.name, F).rules :
           RuleGrants(rule, resource, resourceName)

\* fmt.Sprintf("authority-%s", authorityCopy.GetName())
ClusterRoleName(name) == "authority-" \o name
ClusterRoleNames == {ClusterRoleName(n) : n \in AuthorityNames}

\* policyRule of CreateClusterRoles.
AuthorityRule(name) ==
  [apiGroups |-> {EdgenetGroup}, resources |-> {"authorities", "totalresourcequotas"},
   resourceNames |-> {name}, verbs |-> {"get"}]
\* Rules somebody else gave the role.
ForeignRule ==
  [apiGroups |-> {EdgenetGroup}, resources |-> {"authorities"},
   resourceNames |-> {}, verbs |-> {"get", "list"}]

\* CreateClusterRoles.  err is the variable of line 40; the Get and the Update
\* of lines 45-48 assign the err declared at line 45, and line 55 returns the
\* one of line 40.
CreateClusterRoles(store, name, F) ==
  LET policyRule == {AuthorityRule(name)}
      roleName == ClusterRoleName(name)
      err == IF "create" \in F THEN "ServerTimeout"
             ELSE IF store[roleName].exists THEN "AlreadyExists" ELSE ""
      innerErr == IF "get" \in F \/ ~store[roleName].exists THEN "getErr"
                  ELSE IF "update" \in F THEN "updateErr" ELSE ""
  IN  IF err = ""
        THEN [store |-> [store EXCEPT ![roleName] = Role(policyRule)],
              err |-> err, updated |-> FALSE]
      ELSE IF err = "AlreadyExists" /\ innerErr = ""
        THEN [store |-> [store EXCEPT ![roleName].rules = policyRule],
              err |-> err, updated |-> TRUE]
      ELSE [store |-> store, err |-> err, updated |-> FALSE]

\* A caller asks whether email may use the resource.
CallCheckAuthorization ==
  /\ perm.pc = "ready"
  /\ perm.op = "check"
  /\ \E email \in {"a@x", "b@x"}, F \in {{}, {"list"}, {"get"}} :
       perm' = [perm EXCEPT
                  !.pc = "done", !.email = email, !.fault = F,
                  !.authorized =
                    CheckAuthorization(perm.bindings, perm.roles, perm.namespace,
                                       email, perm.resource, perm.resourceName, F)]
  /\ UNCHANGED <<clock, nsLabels, tenant, roles, rr, aups, rbs, cache, events, queue,
                 dirty, processing, wk, notes, last, sched, watchq, edits, run, core>>

\* The authority controller creates or updates the authority's cluster role.
CallCreateClusterRoles ==
  /\ perm.pc = "ready"
  /\ perm.op = "create"
  /\ \E name \in AuthorityNames, F \in {{}, {"create"}, {"get"}, {"update"}} :
       LET res == CreateClusterRoles(perm.clusterRoles, name, F) IN
       perm' = [perm EXCEPT
                  !.pc = "done", !.name = name, !.fault = F,
                  !.existed = perm.clusterRoles[ClusterRoleName(name)].exists,
                  !.clusterRoles = res.store, !.err = res.err,
                  !.updated = res.updated]
  /\ UNCHANGED <<clock, nsLabels, tenant, roles, rr, aups, rbs, cache, events, queue,
                 dirty, processing, wk, notes, last, sched, watchq, edits, run, core>>

\* The package before one call: the bindings and roles of the namespaces, or
\* the cluster roles.  The controller is not running.
InitPerm ==
  /\ clock = 1
  /\ nsLabels = Namespace("remote")
  /\ tenant = NoTenant
  /\ roles = {}
  /\ aups = <<>>
  /\ rr = [r \in Requests |-> Gone]
  /\ rbs = [n \in BindingNames |-> NoBinding]
  /\ cache = [r \in Requests |-> Gone]
  /\ events = <<>>
  /\ queue = <<>>
  /\ dirty = {}
  /\ processing = {}
  /\ wk = [w \in {"w1"} |-> Idle]
  /\ notes = NoNotes
  /\ last = NoTrace
  /\ sched = SchedOff
  /\ watchq = <<>>
  /\ edits = 0
  /\ run = Running
  /\ core = NoCore
  /\ \/ \E bs \in BindingSets(MaxBindings), rs \in PermRoles :
          /\ perm = [pc |-> "ready", op |-> "check", bindings |-> bs, roles |-> rs,
                     clusterRoles |-> [n \in ClusterRoleNames |-> NoRole],
                     namespace |-> "ns1", email |-> "", resource |-> "rolerequests",
                     resourceName |-> "r1", name |-> "", fault |-> {},
                     authorized |-> FALSE, err |-> "", existed |-> FALSE,
                     updated |-> FALSE]
     \/ \E cr \in [ClusterRoleNames ->
                     {NoRole, Role({ForeignRule})}
                       \cup {Role({AuthorityRule(n)}) : n \in AuthorityNames}] :
          perm = [pc |-> "ready", op |-> "create", bindings |-> {},
                  roles |-> [k \in PermNamespaces \X {"admin", "viewer"} |-> NoRole],
                  clusterRoles |-> cr,
                  namespace |-> "", email |-> "", resource |-> "",
                  resourceName |-> "", name |-> "", fault |-> {},
                  authorized |-> FALSE, err |-> "", existed |-> FALSE,
                  updated |-> FALSE]

NextPerm ==
  \/ CallCheckAuthorization
  \/ CallCreateClusterRoles

SpecPerm == InitPerm /\ [][NextPerm]_vars

\* ------------------------------------------------- the tenant resource quota
\* The last tick of the clock, the entries of one list and the writes of the
\* quota's spec.
MaxQuotaClock == 3
MaxEntries == 2
MaxQuotaWrites == 1

\* The role request controller is not running.
ControllerOff ==
  /\ nsLabels = Namespace("remote")
  /\ tenant = NoTenant
  /\ roles = {}
  /\ aups = <<>>
  /\ rr = [r \in Requests |-> Gone]
  /\ rbs = [n \in BindingNames |-> NoBinding]
  /\ cache = [r \in Requests |-> Gone]
  /\ events = <<>>
  /\ queue = <<>>
  /\ dirty = {}
  /\ processing = {}
  /\ wk = [w \in {"w1"} |-> Idle]
  /\ notes = NoNotes
  /\ last = NoTrace
  /\ sched = SchedOff
  /\ watchq = <<>>
  /\ edits = 0
  /\ run = Running
  /\ perm = NoPerm

\* TenantResourceDetails: a claim or a drop, with no expiry or with one.
QuotaEntries == [name : {"Default"}, expiry : {NoExpiry} \cup (0..MaxQuotaClock)]
RECURSIVE EntryLists(_)
EntryLists(n) ==
  IF n = 0 THEN {<<>>}
  ELSE LET less == EntryLists(n - 1)
       IN  less \cup {Append(l, e) : l \in less, e \in QuotaEntries}

\* The handler drops every entry.
QuotaExpiredAll(e, now) == TRUE

\* An entry of the quota whose expiry has elapsed.
QuotaExpired(e, now) == e.expiry # NoExpiry /\ e.expiry <= now

\* The entries the handler keeps.
RECURSIVE Prune(_, _)
Prune(list, now) ==
  IF list = <<>> THEN <<>>
  ELSE IF QuotaExpired(Head(list), now) THEN Prune(Tail(list), now)
  ELSE <<Head(list)>> \o Prune(Tail(list), now)

\* The earliest expiry among the entries kept, for the handler's timer.
ClosestQuotaExpiry(claim, drop) ==
  LET es == {claim[i].expiry : i \in DOMAIN claim} \cup {drop[i].expiry : i \in DOMAIN drop}
      dated == es \ {NoExpiry}
  IN  IF dated = {} THEN NoExpiry ELSE CHOOSE e \in dated : \A f \in dated : e <= f

\* The handler's pass over the quota: prune both lists, store them, arm the timer.
HandleQuota(c, claim, drop, now) ==
  LET keptClaim == Prune(claim, now)
      keptDrop == Prune(drop, now)
  IN  [c EXCEPT !.claim = keptClaim, !.drop = keptDrop,
                !.timer = ClosestQuotaExpiry(keptClaim, keptDrop), !.at = now]

\* TestCreate / TestUpdate: a client writes the claims and drops of the quota
\* and the handler (ObjectCreated, ObjectUpdated) runs on the written object.
QuotaWrite ==
  /\ core.pc = "trq"
  /\ core.writes < MaxQuotaWrites
  /\ \E claim \in EntryLists(MaxEntries), drop \in EntryLists(MaxEntries) :
       core' = [HandleQuota(core, claim, drop, clock) EXCEPT
                  !.writes = core.writes + 1, !.inClaim = claim, !.inDrop = drop]
  /\ UNCHANGED <<clock, nsLabels, tenant, roles, rr, aups, rbs, cache, events, queue,
                 dirty, processing, wk, notes, last, sched, watchq, edits, run, perm>>

\* The handler's timer fires at or after the closest expiry.
QuotaTimerFire ==
  /\ core.pc = "trq"
  /\ core.timer # NoExpiry
  /\ clock >= core.timer
  /\ core' = HandleQuota(core, core.claim, core.drop, clock)
  /\ UNCHANGED <<clock, nsLabels, tenant, roles, rr, aups, rbs, cache, events, queue,
                 dirty, processing, wk, notes, last, sched, watchq, edits, run, perm>>

TickQuota == Advance(MaxQuotaClock)

InitQuota ==
  /\ clock = 1
  /\ ControllerOff
  /\ core = [pc |-> "trq", claim |-> <<>>, drop |-> <<>>, timer |-> NoExpiry,
             at |-> 0, writes |-> 0, inClaim |-> <<>>, inDrop |-> <<>>]

NextQuota ==
  \/ QuotaWrite
  \/ QuotaTimerFire
  \/ TickQuota

SpecQuota == InitQuota /\ [][NextQuota]_vars

\* ---------------------------------------------------------- the subnamespaces
\* The tenant's core namespace and its quota: 8000m of CPU, 8192Mi of memory.
CoreNamespace == "edgenet"
CoreQuota == [exists |-> TRUE, cpu |-> 8000, memory |-> 8192]
NoQuota == [exists |-> FALSE, cpu |-> 0, memory |-> 0]

\* The subnamespace objects of the tests, one object per name, and the demands
\* of their specs (6000m/6Gi, 2000m/2Gi, 1000m/1Gi).
SubNames == {"all", "nested", "rbac"}
Demands == {[cpu |-> 6000, memory |-> 6144], [cpu |-> 2000, memory |-> 2048],
            [cpu |-> 1000, memory |-> 1024]}
NoSub == [exists |-> FALSE, namespace |-> "", cpu |-> 0, memory |-> 0, established |-> FALSE]

\* fmt.Sprintf("%s-%s", tenant name, subnamespace name)
ChildNamespace(name) == CoreNamespace \o "-" \o name
SubNamespaces == {CoreNamespace} \cup {ChildNamespace(n) : n \in SubNames}

\* The subnamespaces below a namespace, at any depth.
RECURSIVE Below(_, _, _)
Below(subs, namespace, depth) ==
  IF depth = 0 THEN {}
  ELSE LET direct == {n \in SubNames : subs[n].exists /\ subs[n].namespace = namespace}
       IN  direct \cup UNION {Below(subs, ChildNamespace(n), depth - 1) : n \in direct}

\* The deletion hands back what the child namespace still holds.
RefundCurrent(sub, child) == [cpu |-> child.cpu, memory |-> child.memory]

\* What the deletion of a subnamespace hands back to the parent: its demand.
Refund(sub, child) == [cpu |-> sub.cpu, memory |-> sub.memory]

\* A subnamespace is created and the controller reconciles it: with enough
\* quota left in the parent namespace the demand moves to the sub-quota of the
\* new child namespace; otherwise no namespace is created.
SubCreate ==
  /\ core.pc = "sub"
  /\ \E name \in SubNames, parent \in SubNamespaces, d \in Demands :
       /\ ~core.subs[name].exists
       /\ core.quota[parent].exists
       /\ parent # ChildNamespace(name)
       /\ LET q == core.quota[parent]
              fits == q.cpu >= d.cpu /\ q.memory >= d.memory
              sub == [exists |-> TRUE, namespace |-> parent, cpu |-> d.cpu,
                      memory |-> d.memory, established |-> fits]
          IN  core' = [core EXCEPT
                 !.subs[name] = sub,
                 !.quota = IF fits
                   THEN [core.quota EXCEPT
                           ![parent].cpu = q.cpu - d.cpu,
                           ![parent].memory = q.memory - d.memory,
                           ![ChildNamespace(name)] =
                             [exists |-> TRUE, cpu |-> d.cpu, memory |-> d.memory]]
                   ELSE core.quota,
                 !.op = [kind |-> "create", name |-> name, inside |-> {}]]
  /\ UNCHANGED <<clock, nsLabels, tenant, roles, rr, aups, rbs, cache, events, queue,
                 dirty, processing, wk, notes, last, sched, watchq, edits, run, perm>>

\* A subnamespace is deleted and the controller reconciles the deletion: the
\* child namespace goes, with the subnamespaces inside it and their namespaces,
\* and the parent's quota gets the demand back.
SubDelete ==
  /\ core.pc = "sub"
  /\ \E name \in SubNames :
       /\ core.subs[name].exists
       /\ LET sub == core.subs[name]
              child == ChildNamespace(name)
              inside == IF sub.established
                          THEN Below(core.subs, child, Cardinality(SubNames)) ELSE {}
              back == Refund(sub, core.quota[child])
          IN  core' = [core EXCEPT
                 !.subs = [n \in SubNames |->
                             IF n = name \/ n \in inside THEN NoSub ELSE core.subs[n]],
                 !.quota = IF ~sub.established THEN core.quota
                   ELSE [ns \in SubNamespaces |->
                           IF ns = child \/ ns \in {ChildNamespace(n) : n \in inside}
                             THEN NoQuota
                           ELSE IF ns = sub.namespace
                             THEN [core.quota[ns] EXCEPT
                                     !.cpu = @ + back.cpu, !.memory = @ + back.memory]
                           ELSE core.quota[ns]],
                 !.op = [kind |-> "delete", name |-> name, inside |-> inside]]
  /\ UNCHANGED <<clock, nsLabels, tenant, roles, rr, aups, rbs, cache, events, queue,
                 dirty, processing, wk, notes, last, sched, watchq, edits, run, perm>>

InitSub ==
  /\ clock = 1
  /\ ControllerOff
  /\ core = [pc |-> "sub",
             quota |-> [ns \in SubNamespaces |->
                          IF ns = CoreNamespace THEN CoreQuota ELSE NoQuota],
             subs |-> [n \in SubNames |-> NoSub],
             op |-> [kind |-> "", name |-> "", inside |-> {}]]

NextSub ==
  \/ SubCreate
  \/ SubDelete

SpecSub == InitSub /\ [][NextSub]_vars

\* ------------------------------------------------------------ the properties
\* A step in which a worker runs applyProcedure for request r.
Reconciles(r) ==
  \E w \in DOMAIN wk :
    /\ wk[w].pc = "sync"
    /\ wk[w].key = r
    /\ wk'[w].pc = "idle"
    /\ ~Skips(cache[r])

NotApproved(st) == st.state = pending /\ st.message = messageRoleNotApproved
NotFound(st) == st.state = failure /\ st.message = messageRoleNotFound

\* The role a spec names exists: a Role of the namespace or a ClusterRole.
Resolves(spec) == <<spec.kind, spec.name>> \in roles

LocalNamespace == nsLabels.clusterUID = kubeSystemUID

\* C1: once a request's status.expiry is stored, no step (a reconcile, a
\* client's write of the spec, a policy change, the passing of time) stores
\* another value while the request exists.
C1_ExpiryStoredOnce ==
  [][\A r \in Requests :
       (rr[r].exists /\ rr[r].status.expiry # NoExpiry /\ rr'[r].exists)
         => rr'[r].status.expiry = rr[r].status.expiry]_vars

\* A reconcile ran on a request whose expiry was stored at an earlier time and
\* had its status write accepted.
C1_Witness ==
  /\ last.ran /\ last.stOk
  /\ last.old.expiry # NoExpiry
  /\ rr[last.key].exists
  /\ rr[last.key].status.expiry = last.old.expiry
  /\ rr[last.key].status.expiry < clock + TTL

C3_RoleNotFound ==
  [][\A r \in Requests :
       /\ (Reconciles(r) /\ last'.permitted /\ ~Resolves(cache[r].spec))
            => /\ NotFound(last'.new)
               /\ last'.stOk => rr'[r].status = last'.new
               /\ ~last'.stIssued => NotFound(cache[r].status)
       /\ (/\ rr[r].exists /\ rr'[r].exists
           /\ NotFound(rr[r].status)
           /\ ~Resolves(rr[r].spec)
           /\ rr'[r].spec.kind = rr[r].spec.kind
           /\ rr'[r].spec.name = rr[r].spec.name)
            => NotFound(rr'[r].status)]_vars

\* Two reconciles of a request with an unresolved role: the second found
\* (Failure, role not found) stored and left it.
C3_Witness ==
  /\ last.ran /\ last.permitted /\ last.exit = "roleNotFound"
  /\ NotFound(last.old)
  /\ rr[last.key].exists
  /\ NotFound(rr[last.key].status)

\* C4: in a local namespace whose tenant exists and is disabled or has another
\* UID, a reconcile whose lookups answered issues the delete and creates no
\* policy, writes no binding and dispatches no notification; once the server
\* has accepted the delete the request is not in the store.
C4_DeniedIsDeleted ==
  [][\A r \in Requests :
       (/\ Reconciles(r)
        /\ last'.exit \notin {"nsErr", "tenantErr"}
        /\ LocalNamespace
        /\ tenant.exists
        /\ (~tenant.enabled \/ tenant.uid # nsLabels.tenantUID))
         => /\ last'.delIssued
            /\ last'.delOk => ~rr'[r].exists
            /\ aups' = aups /\ rbs' = rbs /\ notes' = notes
            /\ ~last'.lblIssued]_vars

\* The request of a disabled tenant has been deleted by a reconcile.
C4_Witness ==
  /\ last.ran /\ last.delOk
  /\ LocalNamespace /\ tenant.exists /\ ~tenant.enabled
  /\ tenant.uid = nsLabels.tenantUID
  /\ ~rr[last.key].exists

\* C5: in a local namespace whose tenant does not exist, a reconcile whose
\* namespace lookups answered leaves the request deleted.
C5_MissingTenantIsDeleted ==
  (last.ran /\ last.exit # "nsErr" /\ LocalNamespace /\ ~tenant.exists)
    => ~rr[last.key].exists

\* Nothing is left to do: no event to deliver, no key queued, no worker busy.
Quiescent ==
  /\ events = <<>>
  /\ queue = <<>>
  /\ \A w \in DOMAIN wk : wk[w].pc = "idle"

Bound(r) ==
  \E n \in BindingNames :
    /\ rbs[n].exists
    /\ \E i \in 1..Len(rbs[n].subjects) : rbs[n].subjects[i] = rr[r].spec.email

\* The policy the request's label names is one the controller created for the
\* request, and it has been accepted.
CreatedPolicyAccepted(r) ==
  \E i \in 1..Len(aups) :
    /\ aups[i].name = rr[r].labels.aup
    /\ aups[i].name = FreshName(r, SubSeq(aups, 1, i - 1))
    /\ aups[i].generated /\ aups[i].accepted
    /\ aups[i].email = rr[r].spec.email

\* C6: a permitted request with an existing role and the approval flag set,
\* whose first reconcile created its policy and stored Pending, is Approved
\* and bound once the policy has been accepted and the controller has nothing
\* left to do (no event to deliver, no key queued, no worker busy).
C6_AcceptedThenApproved ==
  \A r \in Requests :
    (/\ Quiescent
     /\ edits = 0
     /\ rr[r].exists /\ rr[r].spec.approved /\ Resolves(rr[r].spec)
     /\ ~LocalNamespace
     /\ rr[r].status.state \in {pending, approved}
     /\ CreatedPolicyAccepted(r))
      => rr[r].status.state = approved /\ Bound(r)

\* C7: two approved requests of different users for the same ClusterRole,
\* reconciled by two workers at once: when nothing is left to do the role has
\* one generated binding, which lists both users and every subject it listed
\* before.
C7_BothSubjectsBound ==
  (/\ Quiescent
   /\ \A r \in Requests :
        /\ rr[r].exists /\ rr[r].spec.approved
        /\ rr[r].spec.kind = "ClusterRole" /\ rr[r].spec.name = "viewer")
    => LET b == rbs[<<"clusterrole", "viewer">>]
           in(e) == \E i \in 1..Len(b.subjects) : b.subjects[i] = e
       IN /\ b.exists
          /\ \A r \in Requests : in(rr[r].spec.email)

\* C8: a step of the expiry controller removes a request from the store only
\* if the request's stored expiry is set and is not later than the time.
C8_DeletesOnlyExpired ==
  [][\A r \in Requests :
       (sched' # sched /\ rr[r].exists /\ ~rr'[r].exists)
         => /\ r \in sched'.deleted
            /\ rr[r].status.expiry # NoExpiry
            /\ rr[r].status.expiry <= clock]_vars

\* A timer fire has deleted an expired request and left one that expires later.
C8_Witness ==
  /\ sched.deleted # {}
  /\ \A r \in sched.deleted : ~rr[r].exists
  /\ \E r \in Requests : rr[r].exists /\ rr[r].status.expiry > clock

\* C9: once the watch event of a request with its expiry has been received,
\* the deadline the timer is armed with is not later than the expiry while the
\* request exists.
C9_DeadlineNotLater ==
  \A r \in Requests :
    (/\ rr[r].exists
     /\ rr[r].status.expiry # NoExpiry
     /\ <<r, rr[r].status.expiry>> \in sched.seen)
      => sched.closestExpiry <= rr[r].status.expiry

\* C10: a reconcile that runs applyProcedure issues UpdateStatus if and only
\* if the copy's status at the end differs from the snapshot taken at entry.
C10_StatusWrittenIffChanged ==
  last.ran => (last.stIssued <=> last.new # last.old)

\* A reconcile ended with the status it started with and wrote nothing.
C10_Witness ==
  /\ last.ran /\ ~last.stIssued
  /\ last.old.state # ""
  /\ last.new = last.old

\* The keys waiting in the queue.
Queued == {queue[i] : i \in 1..Len(queue)}

\* C11: no two workers hold the same key; a key added while a worker holds
\* it waits outside the queue until the worker is done, and a key that has
\* been added stays marked until a worker takes it.
C11_OneWorkerPerKey ==
  /\ \A v, w \in DOMAIN wk :
       (v # w /\ wk[v].pc # "idle" /\ wk[w].pc # "idle") => wk[v].key # wk[w].key
  /\ processing = {wk[w].key : w \in {v \in DOMAIN wk : wk[v].pc # "idle"}}
  /\ \A k \in processing : k \notin Queued
  /\ \A k \in dirty : k \in processing \/ k \in Queued
  /\ \A i, j \in 1..Len(queue) : i # j => queue[i] # queue[j]

\* A key has been added while a worker holds it, and another worker is free.
C11_Witness ==
  /\ \E k \in dirty : k \in processing
  /\ \E w \in DOMAIN wk : wk[w].pc = "idle"

\* C12: a worker whose key has no object in the lister ends syncHandler
\* without running the procedure: no store write, no event, no notification;
\* the key is not added again, and leaves the queue unless an event had
\* added it meanwhile.
C12_AbsentKeyIsDropped ==
  [][\A w \in DOMAIN wk :
       (wk[w].pc = "sync" /\ wk'[w].pc = "idle" /\ ~cache[wk[w].key].exists)
         => /\ rr' = rr /\ aups' = aups /\ rbs' = rbs
            /\ events' = events /\ notes' = notes
            /\ ~last'.ran
            /\ dirty' = dirty
            /\ wk[w].key \notin processing'
            /\ queue' = IF wk[w].key \in dirty THEN Append(queue, wk[w].key)
                                               ELSE queue]_vars

\* A worker found its key's object gone from the lister (a reconcile had
\* deleted the request) and dropped the key.
C12_Witness ==
  /\ last.key # "" /\ ~last.ran
  /\ ~cache[last.key].exists /\ ~rr[last.key].exists
  /\ last.key \notin dirty /\ last.key \notin processing
  /\ Quiescent

\* C13: a reconcile in which the namespace lookup or the list of the role
\* bindings fails has its key added to the queue again.
C13_FailedCallIsRetried ==
  [][\A r \in Requests :
       (Reconciles(r) /\ last'.exit \in {"nsErr", "rbListErr"})
         => r \in dirty' /\ r \in Queued']_vars

\* The informer takes the next watch event in this step.
Delivers == events # <<>> /\ events' = Tail(events)

\* C14: the delivery of an update event adds the request's key exactly when
\* the event's spec differs from the spec the lister had; an update that
\* changes the status or the labels alone leaves the queue as it was.
C14_EnqueueIffSpecChanged ==
  [][(Delivers /\ Head(events).type = "upd")
       => LET e == Head(events)
              old == cache[e.key]
          IN /\ e.obj.spec = old.spec => (queue' = queue /\ dirty' = dirty)
             /\ e.obj.spec # old.spec
                  => /\ e.key \in dirty'
                     /\ e.key \in Queued' \/ e.key \in processing]_vars

\* The controller's own label and status writes have been delivered to the
\* informer and the key has not been queued again.
C14_Witness ==
  /\ \E r \in Requests :
       /\ cache[r].exists /\ cache[r] = rr[r]
       /\ cache[r].status.state # ""
       /\ cache[r].labels.aup # "" /\ last.lblOk
  /\ edits = 0
  /\ Quiescent /\ dirty = {}

\* syncHandler for key r on the store st, the lister holding the stored
\* object, with no failing call: the store it leaves and whether it
\* dispatched a notification.
SyncOn(r, st, now) ==
  LET obj == st.rr[r]
  IN IF Skips(obj) THEN [st EXCEPT !.noted = FALSE]
     ELSE LET x0 == [Enter(r, obj) EXCEPT !.rr = st.rr, !.aups = st.aups,
                                          !.rbs = st.rbs, !.listed = st.rbs]
              x == ProcedureTail(ProcedureHead(x0, now, {}), {})
          IN [rr |-> x.rr, aups |-> x.aups, rbs |-> x.rbs,
              noted |-> x.tr.notePending \/ x.tr.noteApproved]

\* C15: with the lister up to date and no failing call, reconciling a key
\* twice leaves the request's status and labels, the policies and the role
\* bindings as reconciling it once does, and the second reconcile dispatches
\* no notification.
C15_ReconcileTwiceIsOnce ==
  \A r \in Requests :
    (rr[r].exists /\ cache[r] = rr[r] /\ events = <<>>)
      => LET once == SyncOn(r, [rr |-> rr, aups |-> aups, rbs |-> rbs,
                                noted |-> FALSE], clock)
             twice == SyncOn(r, once, clock)
         IN /\ twice.rr[r].exists = once.rr[r].exists
            /\ twice.rr[r].status = once.rr[r].status
            /\ twice.rr[r].labels = once.rr[r].labels
            /\ twice.aups = once.aups
            /\ twice.rbs = once.rbs
            /\ ~twice.noted

\* A timer fire of the expiry controller: the deadline it arms is later than
\* the one it fired at.
TimerFires == sched'.closestExpiry > sched.closestExpiry

\* C16: once Run has returned after the stop signal, the expiry controller
\* handles no timer fire: no list, no delete.
C16_NoFireAfterStop ==
  [][run.returned => ~TimerFires /\ sched'.deleted = sched.deleted]_vars

\* C17: when Run has returned no worker holds a key: no syncHandler is in
\* progress and none starts.
C17_NoHandlerAfterReturn ==
  run.returned => \A w \in DOMAIN wk : wk[w].pc \in {"idle", "exited"}

\* C18: a request whose status.expiry is unset, reconciled with its namespace
\* lookups and every write it issues succeeding, has its expiry stored by that
\* reconcile, also when the reconcile stores the policy label.
C18_FirstReconcileStoresExpiry ==
  ( /\ last.ran
    /\ last.old.expiry = NoExpiry
    /\ last.exit # "nsErr"
    /\ ~last.delIssued
    /\ last.lblIssued => last.lblOk
    /\ last.rbOp # "none" => last.rbOk
    /\ last.stIssued => last.stOk
    /\ rr[last.key].exists )
  => rr[last.key].status.expiry # NoExpiry

\* C19: after a call of CreateClusterRoles that found the authority's cluster
\* role and updated its rules, the role holds exactly the authority's get rule
\* and the call has returned no error.
C19_UpdateReturnsNoError ==
  (perm.pc = "done" /\ perm.op = "create" /\ perm.existed /\ perm.updated)
  => /\ perm.clusterRoles[ClusterRoleName(perm.name)].rules = {AuthorityRule(perm.name)}
     /\ perm.err = ""

\* C20: a call of CheckAuthorization whose lookups are answered returns true
\* exactly when a role binding of the namespace lists the email as a User
\* subject and refers, with kind Role, to a role of the namespace with a rule
\* for the group apps.edgenet.io that names the resource and has no resource
\* names or has the resource name among them.
C20_AuthorizedIffBoundRoleGrants ==
  (perm.pc = "done" /\ perm.op = "check" /\ perm.fault = {})
  => (perm.authorized <=>
        \E b \in perm.bindings, n \in {"admin", "viewer"}, rule \in PolicyRules :
          /\ b.namespace = perm.namespace
          /\ Subject("User", perm.email) \in b.subjects
          /\ b.roleRef = [kind |-> "Role", name |-> n]
          /\ perm.roles[<<perm.namespace, n>>].exists
          /\ rule \in perm.roles[<<perm.namespace, n>>].rules
          /\ "apps.edgenet.io" \in rule.apiGroups
          /\ perm.resource \in rule.resources
          /\ (rule.resourceNames = {} \/ perm.resourceName \in rule.resourceNames))
\* A user bound to a role whose rule names the resource name is authorized,
\* beside a binding to a cluster role and a binding of another namespace.
C20_Witness ==
  /\ perm.pc = "done" /\ perm.op = "check" /\ perm.fault = {}
  /\ perm.authorized
  /\ Cardinality(perm.bindings) = MaxBindings
  /\ \E b \in perm.bindings : b.namespace # perm.namespace
  /\ perm.roles[<<"ns1", "admin">>].exists
  /\ \A rule \in perm.roles[<<"ns1", "admin">>].rules : rule.resourceNames = {"r1"}
  /\ ~perm.roles[<<"ns1", "viewer">>].exists

\* The number of occurrences of an entry in a list.
Count(list, e) == Cardinality({i \in DOMAIN list : list[i] = e})
\* The entries of the quota's spec.
QuotaSpec == core.claim \o core.drop
ElapsedAt(e, now) == e.expiry # NoExpiry /\ e.expiry <= now
Elapsed(e) == ElapsedAt(e, clock)

\* C21: when a write of the quota has been handled the elapsed entries of the
\* written claims and drops are gone and the others are all there; an entry
\* leaves the spec only when its expiry has elapsed; and an elapsed entry still
\* in the spec has the timer due.
C21_ExpiredEntriesRemoved ==
  [][ /\ core'.writes > core.writes =>
           \A e \in QuotaEntries :
             /\ Count(core'.claim, e) = IF Elapsed(e) THEN 0 ELSE Count(core'.inClaim, e)
             /\ Count(core'.drop, e) = IF Elapsed(e) THEN 0 ELSE Count(core'.inDrop, e)
      /\ core'.writes = core.writes =>
           \A e \in QuotaEntries :
             \/ Count(core'.claim, e) = Count(core.claim, e)
                  /\ Count(core'.drop, e) = Count(core.drop, e)
             \/ Elapsed(e) /\ Count(core'.claim, e) = 0 /\ Count(core'.drop, e) = 0
      /\ core'.at > core.at =>
           \A i \in DOMAIN QuotaSpec' : ~Elapsed(QuotaSpec'[i])
      /\ \A i \in DOMAIN QuotaSpec' :
           ElapsedAt(QuotaSpec'[i], clock') => core'.timer # NoExpiry /\ core'.timer <= clock' ]_vars
\* The timer has removed an elapsed claim and drop and kept a later claim and
\* an undated drop.
C21_Witness ==
  /\ core.pc = "trq"
  /\ core.at > 1
  /\ Len(core.inClaim) = 2 /\ Len(core.claim) = 1 /\ core.claim[1].expiry > clock
  /\ Len(core.inDrop) = 2 /\ Len(core.drop) = 1 /\ core.drop[1].expiry = NoExpiry
  /\ core.timer = core.claim[1].expiry

\* The sum of a resource over the existing namespaces.
RECURSIVE TotalQuota(_, _, _)
TotalQuota(quota, nss, res) ==
  IF nss = {} THEN 0
  ELSE LET ns == CHOOSE x \in nss : TRUE
       IN  (IF quota[ns].exists THEN quota[ns][res] ELSE 0)
             + TotalQuota(quota, nss \ {ns}, res)

\* C22: the quota summed over the core namespace and the child namespaces is
\* what the core namespace started with; a subnamespace that is created takes
\* its demand from its parent's quota into the sub-quota of its child
\* namespace; a subnamespace that is deleted loses its child namespace and
\* hands its demand back to its parent.
C22_QuotaConserved ==
  /\ core.pc = "sub" =>
       /\ TotalQuota(core.quota, SubNamespaces, "cpu") = CoreQuota.cpu
       /\ TotalQuota(core.quota, SubNamespaces, "memory") = CoreQuota.memory
       /\ \A n \in SubNames :
            core.quota[ChildNamespace(n)].exists
              <=> core.subs[n].exists /\ core.subs[n].established
       /\ (\A n \in SubNames : ~core.subs[n].exists) => core.quota[CoreNamespace] = CoreQuota
       /\ \A n \in SubNames :
            (core.op.kind = "create" /\ core.op.name = n /\ core.subs[n].established)
              => /\ core.quota[ChildNamespace(n)].cpu = core.subs[n].cpu
                 /\ core.quota[ChildNamespace(n)].memory = core.subs[n].memory
\* A subnamespace holding a nested one has been deleted, and the core
\* namespace has its whole quota again.
C22_Witness ==
  /\ core.pc = "sub"
  /\ core.op.kind = "delete"
  /\ core.op.inside # {}
  /\ \A n \in SubNames : ~core.subs[n].exists
  /\ core.quota[CoreNamespace] = CoreQuota

\* C23: no two generated acceptable use policies carry the same email.
C23_OneGeneratedPolicyPerEmail ==
  \A i, j \in 1..Len(aups) :
    (aups[i].generated /\ aups[j].generated /\ aups[i].email = aups[j].email) => i = j

\* C24: a reconcile that creates or extends a role binding, ends with state
\* Approved, or dispatches the approved notification with its credentials, ran
\* on a request whose role exists, whose approval flag is set, and whose policy
\* (the one its label names, or a generated one when it has no label) has the
\* request's email and is accepted.
C24_GatesBeforeApproval ==
  [][\A r \in Requests :
       ( /\ Reconciles(r)
         /\ \/ last'.rbOp # "none"
            \/ last'.new.state = approved
            \/ last'.noteApproved
            \/ last'.methods # <<>> )
       => /\ Resolves(cache[r].spec)
          /\ cache[r].spec.approved
          /\ \E i \in 1..Len(aups) :
               /\ aups[i].email = cache[r].spec.email
               /\ aups[i].accepted
               /\ IF cache[r].labels.aup # ""
                    THEN aups[i].name = cache[r].labels.aup
                    ELSE aups[i].generated]_vars
\* A reconcile has bound the requester, dispatched the approved notification
\* and stored Approved.
C24_Witness ==
  /\ last.ran /\ last.rbOk /\ last.noteApproved
  /\ last.stOk /\ last.new.state = approved
  /\ rr[last.key].exists /\ rr[last.key].status.state = approved

\* C25: whenever Approved is stored for a request, a role binding holds the
\* requester's email at that moment.
C25_ApprovedIsBound ==
  [][\A r \in Requests :
       (rr'[r].exists /\ rr'[r].status.state = approved /\ rr[r].status.state # approved)
         => Bound(r)']_vars

\* C26: a reconcile of a request whose role reference names no existing role
\* creates no acceptable use policy and issues no update of the policy label.
C26_NoPolicyForBadRole ==
  [][\A r \in Requests :
       (Reconciles(r) /\ ~Resolves(cache[r].spec))
         => /\ aups' = aups
            /\ ~last'.aupCreated
            /\ ~last'.lblIssued
            /\ rr'[r].exists => rr'[r].labels = rr[r].labels]_vars
\* A first reconcile found the role missing while its email had no policy and
\* the request no label: the policy it would have created does not exist.
C26_Witness ==
  /\ last.ran /\ last.permitted /\ last.exit = "roleNotFound"
  /\ last.old.state = ""
  /\ aups = <<>>
  /\ rr[last.key].exists /\ rr[last.key].labels.aup = ""

\* C27: a reconcile that issues the delete of a denied request issues no write
\* of its status.
C27_DeniedWritesNoStatus ==
  [][\A r \in Requests : (Reconciles(r) /\ last'.delIssued) => ~last'.stIssued]_vars

\* C28: a reconcile whose Update or Create of the role binding fails ends with
\* (Failure, binding failed), leaves the bindings as they were, generates no
\* credentials and dispatches no approved notification.
C28_BindingFailureWins ==
  [][\A r \in Requests :
       (Reconciles(r) /\ last'.rbOp # "none" /\ ~last'.rbOk)
         => /\ last'.new.state = failure
            /\ last'.new.message = messageBindingFailed
            /\ last'.stOk => rr'[r].status = last'.new
            /\ rbs' = rbs
            /\ ~last'.noteApproved
            /\ last'.methods = <<>>
            /\ notes'[r].approved = notes[r].approved]_vars
\* The write of the binding failed and (Failure, binding failed) is stored.
C28_Witness ==
  /\ last.ran /\ last.rbOp # "none" /\ ~last.rbOk
  /\ last.stOk
  /\ rr[last.key].exists
  /\ rr[last.key].status.state = failure
  /\ rr[last.key].status.message = messageBindingFailed

\* C29: a reconcile that runs applyProcedure for a request whose stored state
\* is Approved leaves the stored requests (status and labels), the policies
\* and the role bindings as they were.
C29_ApprovedIsFinal ==
  [][\A r \in Requests :
       (rr[r].exists /\ rr[r].status.state = approved /\ Reconciles(r))
          => rr' = rr /\ aups' = aups /\ rbs' = rbs]_vars

\* C30: over any sequence of reconciles a request's requester is sent the
\* approved notification at most once.
C30_ApprovedNotifiedOnce ==
  \A r \in Requests : notes[r].approved <= 1

\* The methods a spec asks for, lower-cased.
Requested(spec) == {ToLower(spec.auth[i]) : i \in DOMAIN spec.auth}
Listed(methods) == {methods[i] : i \in DOMAIN methods}

\* C31: a reconcile that binds the requester while the generation of the
\* client certificate or of the kubeconfig fails ends Approved, dispatches the
\* approved notification, leaves client-certificate out of its methods and
\* lists oidc whenever the request asks for it.
C31_CredentialFailureKeepsApproved ==
  \A r \in Requests :
    ~Skips(cache[r])
      => \A F \in {{"certGen"}, {"makeConfig"}} :
           LET x == applyProcedure(r, cache[r], clock, F)
           IN x.roleBound
                => /\ x.tr.new.state = approved
                   /\ x.tr.new.message = messageRoleApproved
                   /\ x.tr.noteApproved
                   /\ "client-certificate" \notin Listed(x.tr.methods)
                   /\ ("oidc" \in Requested(cache[r].spec)
                         <=> "oidc" \in Listed(x.tr.methods))

\* C31 happened: a reconcile bound a requester who asked for both methods,
\* notified with oidc alone and stored Approved.
C31_Witness ==
  /\ last.ran /\ last.rbOk /\ last.noteApproved
  /\ last.methods = <<"oidc">>
  /\ rr[last.key].exists
  /\ Requested(rr[last.key].spec) = {"client-certificate", "oidc"}
  /\ last.stOk
  /\ rr[last.key].status.state = approved

\* C32: no instance of the expiry controller is held at the send of its
\* terminate signal: an instance whose watch could not be opened has left its
\* loop and returned.
C32_FailedInstanceReturns == sched.blocked = 0

\* A step in which the loop of the expiry controller takes a watched expiry.
WatchStep == sched.pc = "run" /\ watchq # <<>> /\ watchq' = Tail(watchq)

\* C33: a watched expiry t becomes the deadline when it is earlier than the
\* armed deadline and leaves it otherwise; the zero-time deadline the
\* controller starts with is left by every watched expiry.
C33_WatchRearmsEarlier ==
  [][WatchStep
       => LET t == Head(watchq).obj.status.expiry
              ce == sched.closestExpiry
          IN /\ sched'.closestExpiry = IF t < ce THEN t ELSE ce
             /\ ce = ZeroTime => sched'.closestExpiry = ZeroTime]_vars

\* C33 happened: after a fire whose list failed had armed the timer a year
\* ahead, a watched expiry has become the deadline.
C33_Witness ==
  /\ sched.pc = "run"
  /\ sched.listFailed
  /\ sched.closestExpiry < Year
  /\ \E r \in Requests : <<r, sched.closestExpiry>> \in sched.seen

\* The expiries of the stored requests that are later than now.
FutureExpiries(now) ==
  {rr[r].status.expiry : r \in {q \in Requests : rr[q].exists /\ Future(rr[q].status.expiry, now)}}
Min(S) == CHOOSE m \in S : \A n \in S : m <= n

\* C34: a timer fire whose list succeeds deletes every listed request whose
\* expiry is not later than the time of the fire and, when a listed request
\* expires later, arms the timer with the earliest of the later expiries.
C34_FireDeletesAndArmsMin ==
  [][(TimerFires /\ ~sched'.listFailed)
       => /\ \A r \in Requests :
               (rr[r].exists /\ Expired(rr[r].status.expiry, clock))
                 => r \in sched'.deleted
          /\ FutureExpiries(clock) # {}
               => sched'.closestExpiry = Min(FutureExpiries(clock))]_vars

\* C35: when the handler of a timer fire completes, the deadline is later
\* than the time it completes at, so the timer is not due again at once; when
\* no listed request expires later, the deadline is a year after that time.
C35_FireArmsLater ==
  [][(TimerFires /\ sched'.pc = "run")
       => /\ sched'.closestExpiry > clock'
          /\ (sched'.listFailed \/ FutureExpiries(clock') = {})
               => sched'.closestExpiry = clock' + Year]_vars

\* C35 happened: a fire whose list succeeded found an expired request, deleted
\* it and armed the timer a year ahead.
C35_Witness ==
  /\ sched.pc = "run"
  /\ ~sched.listFailed
  /\ sched.deleted # {}
  /\ sched.closestExpiry = clock + Year

\* A timer fire whose List fails.
ListFailedStep ==
  /\ sched.pc = "run"
  /\ sched'.listFailed
  /\ TimerFires \/ sched'.pc = "crashed"

\* C36: a timer fire whose List fails, with no watched expiry waiting to be
\* taken, does not end the process and leaves a deadline that is not later
\* than the expiry of any stored request.
C36_ListFailureKeepsDeadlines ==
  [][(ListFailedStep /\ watchq' = <<>>)
       => /\ sched'.pc = "run"
          /\ \A r \in Requests :
               (rr'[r].exists /\ rr'[r].status.expiry # NoExpiry)
                 => sched'.closestExpiry <= rr'[r].status.expiry]_vars

\* A worker holds key r at the given position of syncHandler.
Holds(r, pc) == \E w \in DOMAIN wk : wk[w].pc = pc /\ wk[w].key = r /\ wk'[w] # wk[w]

\* C37: a request the expiry controller has deleted is not created again by a
\* reconcile; a reconcile that ends after the deletion ends without an error,
\* so its key is queued again only if an event marked it; and the reconcile of
\* the key that follows it finds the request absent and writes nothing.
C37_DeleteDuringReconcile ==
  [][\A r \in Requests :
       /\ ~rr[r].exists => ~rr'[r].exists
       /\ (Holds(r, "bind") /\ ~rr[r].exists)
            => /\ ~last'.stOk
               /\ r \in Queued' => r \in dirty
       /\ (Holds(r, "sync") /\ last.ran /\ last.key = r /\ last.gone)
            => /\ Skips(cache[r])
               /\ rr' = rr /\ aups' = aups /\ rbs' = rbs /\ notes' = notes]_vars

\* C38: in a reconcile that reaches the binding, the name searched for among
\* the generated bindings is the name a binding is created under, and no
\* Create is attempted for a binding that exists.
C38_SearchNameIsCreateName ==
  [][\A r \in Requests :
       (Reconciles(r) /\ last'.rbOp # "none")
         => /\ SearchName(cache[r].spec) = CreateName(cache[r].spec)
            /\ last'.rbOp = "create" => ~rbs[CreateName(cache[r].spec)].exists]_vars

\* C39: in a namespace whose cluster-uid label is not the UID of kube-system,
\* or is missing, a reconcile whose namespace lookups answered is permitted
\* whatever the tenant is and whether or not a tenant lookup would answer: it
\* does not end at the tenant lookup and issues no delete.  In a local
\* namespace the tenant decides.
C39_RemoteNamespacePermitted ==
  [][\A r \in Requests :
       (Reconciles(r) /\ last'.exit # "nsErr")
         => IF ~LocalNamespace
              THEN /\ last'.permitted
                   /\ last'.exit # "tenantErr"
                   /\ ~last'.delIssued
              ELSE /\ last'.permitted
                     => tenant.exists /\ tenant.enabled /\ tenant.uid = nsLabels.tenantUID
                   /\ ~tenant.exists => last'.exit = "tenantErr"]_vars

\* C39 happened: a request in a namespace without the cluster-uid label, its
\* tenant missing, has been reconciled as permitted and approved.
C39_Witness ==
  /\ last.ran /\ last.permitted
  /\ nsLabels.clusterUID = ""
  /\ ~tenant.exists
  /\ rr[last.key].exists
  /\ rr[last.key].status.state = approved

\* C40: a reconcile whose update of the policy label is accepted leaves every
\* other label of the stored request and its spec as they were.
C40_LabelUpdateKeepsOthers ==
  [][\A r \in Requests :
       (Reconciles(r) /\ last'.lblOk /\ rr'[r].exists)
         => /\ rr'[r].labels.extra = rr[r].labels.extra
            /\ rr'[r].spec = rr[r].spec]_vars

====
